---------------------------- MODULE Spec2Model ----------------------------
(***************************************************************************)
(* Client-side synchronisation of the payments and tasks views.            *)
(*                                                                         *)
(*   PaymentsPage  (src/src/integrations/supabase/supabaseAdmin.ts 56-187) *)
(*   PaymentList   (src/src/components/payments/PaymentList.tsx)           *)
(*   TasksPage     (src/src/pages/TasksPage.tsx)                           *)
(*   AddTaskDialog (src/src/components/tasks/AddTaskDialog.tsx)            *)
(*                                                                         *)
(* Every handler runs to completion (single-threaded UI); the suspension   *)
(* points are the awaits on backend requests and timers, so an async       *)
(* handler is one action per segment between awaits.                       *)
(***************************************************************************)
EXTENDS Integers, Sequences, FiniteSets, TLC

\* ------------------------------------------------------------------ bounds
NumKeys == 2            \* distinct primary keys of payments in play
NumTaskKeys == 3        \* distinct primary keys of tasks in play
MaxInFlight == 1        \* fetches of one view awaiting the backend at once,
                        \*   change events under way at once
MaxRequests == 2        \* requests of PaymentList the backend has not settled
MaxWrites == 2          \* writes to a table in one session
MaxScopes == 2          \* fetches awaiting the backend while the user changes
TickMs == 5000          \* granularity of the passing of time, milliseconds

\* ------------------------------------------------------------ data domains
Keys == 1..NumKeys
TaskKeys == 1..NumTaskKeys
Clients == {"c1", "c2"}
Undefined == "undefined"            \* an undefined string-valued property
UndefinedPayment == [undefined |-> TRUE]   \* undefined where a Payment is expected
NoKey == 0

\* PaymentStatus enum
Statuses == {"due", "invoiced", "pending", "received", "overdue", "canceled"}
\* statuses a non-admin viewer may see
ClientStatuses == {"invoiced", "overdue", "pending"}
\* statuses carried by the inputs of the model: one the non-admin query
\* admits and one it does not ("received" is also what handlePaymentCompleted
\* writes, "invoiced" what generateInvoice writes)
InputStatuses == {"invoiced", "received"}

\* the instants carried as updated_at by the inputs of the model, in
\* milliseconds: an earlier and a later one
Stamps == {1, 2}
EarliestStamp == CHOOSE s \in Stamps : \A t \in Stamps : s <= t
\* new Date() where a handler stamps a write: no stamp in play is later
LatestStamp == CHOOSE s \in Stamps : \A t \in Stamps : t <= s

\* rows as the backend returns them (snake_case columns)
PaymentRow ==
  [id : Keys, client_id : Clients, status : InputStatuses, updated_at : Stamps]
\* the Payment domain shape held in component state
Payment ==
  [id : Keys, clientId : Clients, status : InputStatuses, updatedAt : Stamps]

\* data.map((p) => ({ id: p.id, clientId: p.client_id, status: p.status,
\*                    updatedAt: new Date(p.updated_at), ... }))
FormatPayment(row) ==
  [id |-> row.id, clientId |-> row.client_id, status |-> row.status,
   updatedAt |-> row.updated_at]

RECURSIVE MapFormat(_)
MapFormat(rows) ==
  IF rows = << >> THEN << >>
  ELSE <<FormatPayment(Head(rows))>> \o MapFormat(Tail(rows))

\* ---------------------------------------------------------------- helpers
SetKeeping(prev, value) == prev \o value

\* setPayments(value), the state setter given a value and not an updater: the
\* state becomes the value, whatever it was
SetTo(prev, value) == value

HasUndefined(coll) == \E i \in 1..Len(coll) : coll[i] = UndefinedPayment

\* sequences of rows with strictly increasing primary key, keys up to n
RECURSIVE RowSeqsUpTo(_, _)
RowSeqsUpTo(rows, n) ==
  IF n = 0 THEN {<< >>}
  ELSE LET shorter == RowSeqsUpTo(rows, n - 1)
       IN shorter \cup
          {Append(s, r) : s \in shorter, r \in {x \in rows : x.id = n}}

\* ----------------------------------------------------------------- state
VARIABLES
  route,            \* the dashboard route that is mounted
  isAdmin,          \* user?.role === 'admin'
  clientId,         \* user?.app_metadata?.clientId
  ppPayments,       \* PaymentsPage: payments
  ppOpen,           \* PaymentsPage: open
  ppPaymentToEdit,  \* PaymentsPage: paymentToEdit
  ppFetches,        \* PaymentsPage: per query, the fetchPayments calls that
                    \*   built it and still await the backend
  ppChannels,       \* PaymentsPage: the channels of the view that are subscribed
  ppSubmit,         \* AddPaymentDialog: what became of the write onSubmit awaits
  dbEvents,         \* backend: change events emitted and not yet delivered
  dbSnapshot,       \* backend: per query, the rows read for a fetch of
                    \*   PaymentsPage whose response is still under way
  adClientId,       \* AddPaymentDialog form: clientId
  adTaskId,         \* AddPaymentDialog form: taskId
  adTasks,          \* AddPaymentDialog: tasks (the ids offered for selection)
  adIsLoadingTasks, \* AddPaymentDialog: isLoadingTasks
  adFetches,        \* AddPaymentDialog: per client, the fetchTasks calls that
                    \*   still await the backend
  authIsLoading,    \* useAuth(): isLoading
  authUser,         \* useAuth(): user
  location,         \* the router: the path the application is at
  plPayments,       \* PaymentList: payments
  plClients,        \* PaymentList: clients
  plTasks,          \* PaymentList: tasks
  plDeleteDialogOpen,   \* PaymentList: deleteDialogOpen
  plPaymentToDelete,    \* PaymentList: paymentToDelete
  plPaymentDialogOpen,  \* PaymentList: paymentDialogOpen
  plSelectedPayment,    \* PaymentList: selectedPayment
  plIsLoading,      \* PaymentList: isLoading
  plIsProcessing,   \* PaymentList: isProcessing
  plDebounced,      \* PaymentList: the pending call of debouncedSetDeleteDialogOpen
  plPayTimer,       \* PaymentList: the setTimeout handlePayNow started
  plRequests,       \* PaymentList: requests sent that the backend has not settled
  plDb,             \* backend: table payments
  tpTasks,          \* TasksPage: tasks
  tpIsAddDialogOpen,    \* TasksPage: isAddDialogOpen
  tpTaskToEdit,     \* TasksPage: taskToEdit
  tpIsLoading,      \* TasksPage: isLoading
  tpRequests,       \* TasksPage, AddTaskDialog: requests awaiting the backend
  tpDb,             \* backend: table tasks
  writes,           \* the writes the user has started so far
  crashed,          \* a state updater threw while rendering: tree unmounted
  toast,            \* the notification the latest handler segment raised
  last,             \* observation: the handler segment that ran last
  seen              \* observation: per key, the change event emitted last

pageVars == <<ppPayments, ppOpen, ppPaymentToEdit, ppFetches, ppChannels>>

listVars == <<plPayments, plClients, plTasks, plDeleteDialogOpen,
              plPaymentToDelete, plPaymentDialogOpen, plSelectedPayment,
              plIsLoading, plIsProcessing, plDebounced, plPayTimer,
              plRequests, plDb>>

formVars == <<adClientId, adTaskId, adTasks, adIsLoadingTasks, adFetches>>

authVars == <<authIsLoading, authUser, location>>

backVars == <<ppSubmit, dbEvents, dbSnapshot, formVars, authVars>>

tasksVars == <<tpTasks, tpIsAddDialogOpen, tpTaskToEdit, tpIsLoading,
               tpRequests, tpDb>>

vars == <<route, isAdmin, clientId, pageVars, backVars, listVars, tasksVars,
          writes, crashed, toast, last, seen>>

\* the viewers: an admin, a client user assigned to c1, and a non-admin user
\* without an assigned client (or no user yet)
Viewers == {<<TRUE, Undefined>>, <<FALSE, "c1">>, <<FALSE, Undefined>>}

\* ---------------------------------------------------------- scope / query
\* the query fetchPayments / loadData build:
\*   if (!isAdmin && clientId) query.eq('client_id', clientId).in('status', [...])
QueryOf(adm, cid) == IF ~adm /\ cid # Undefined THEN cid ELSE "all"

QueryMatches(q, row) ==
  q = "all" \/ (row.client_id = q /\ row.status \in ClientStatuses)

Queries == {"all"} \cup Clients

\* every answer the backend gives to a query: the rows of some table state
\* that match it, each primary key at most once, in primary-key order
QueryResultsTable ==
  [q \in Queries |->
     RowSeqsUpTo({r \in PaymentRow : QueryMatches(q, r)}, NumKeys)]

QueryResults(q) == QueryResultsTable[q]

\* the inputs of the specifications in which updated_at plays no part: rows,
\* records and query answers that carry one and the same stamp
InputRows == {r \in PaymentRow : r.updated_at = EarliestStamp}
InputPayments == {p \in Payment : p.updatedAt = EarliestStamp}
InputResultsTable ==
  [q \in Queries |->
     RowSeqsUpTo({r \in InputRows : QueryMatches(q, r)}, NumKeys)]
InputResults(q) == InputResultsTable[q]

\* payload.new.id / p.id of a record that carries no id: undefined, which is
\* unequal to every key and equal to itself
UndefinedKey == -1

\* rows as they may arrive when nothing vouches for their shape
RawRow ==
  [id : Keys \cup {UndefinedKey}, client_id : Clients, status : InputStatuses,
   updated_at : {EarliestStamp}]

WellFormed(row) == row.id \in Keys

\* answers to a query in which rows without an id occur
RawResults(q) ==
  {data \in UNION {[1..n -> {r \in RawRow : QueryMatches(q, r)}] : n \in 0..NumKeys} :
      \A i, j \in 1..Len(data) :
          (i < j /\ WellFormed(data[i]) /\ WellFormed(data[j])) => data[i].id < data[j].id}

\* the test the INSERT handler and handlePaymentSaved apply before merging
PassesMergeTest(adm, cid, p) == adm \/ p.clientId = cid

\* the scope predicate of the data model: admin sees all, a non-admin only
\* records of the assigned client in an allowed status
InScope(adm, cid, p) ==
  adm \/ (p.clientId = cid /\ p.status \in ClientStatuses)

\* ----------------------------------------------------- collection updaters
FilterOutNothing(prev, id) == prev

\* prev.filter((p) => p.id !== id)
FilterOutId(prev, id) == SelectSeq(prev, LAMBDA p : p.id # id)

UpsertFrontKeepOld(prev, newPayment) == <<newPayment>> \o prev

\* (prev) => [newPayment, ...prev.filter((p) => p.id !== newPayment.id)]
UpsertFront(prev, newPayment) ==
  IF newPayment = UndefinedPayment
  THEN <<newPayment>> \o prev
  ELSE <<newPayment>> \o FilterOutId(prev, newPayment.id)

\* the filter callback reads p.id and newPayment.id for every element of prev:
\* a TypeError when either is undefined and prev is not empty
UpsertThrows(prev, newPayment) ==
  prev # << >> /\ (newPayment = UndefinedPayment \/ HasUndefined(prev))

\* (prev) => prev.filter((p) => p.id !== id)
RemoveById(prev, id) == FilterOutId(prev, id)

RemoveThrows(prev) == HasUndefined(prev)

\* what the INSERT handler makes of a collection
ApplyInserted(adm, cid, prev, newPayment) ==
  IF PassesMergeTest(adm, cid, newPayment)
  THEN UpsertFront(prev, newPayment)
  ELSE prev

\* ------------------------------------------------- requests awaiting a reply
NoRequests == [q \in Queries |-> 0]
InFlight(reqs) == reqs["all"] + reqs["c1"] + reqs["c2"]
Issue(reqs, q) == [reqs EXCEPT ![q] = @ + 1]
Settle(reqs, q) == [reqs EXCEPT ![q] = @ - 1]

\* ------------------------------------------------ change-event subscription
\* supabase.channel('payments_changes').on(...).on(...).subscribe()
Subscribed(n) == n + 1

StillSubscribed(n) == n

\* the effect's cleanup: supabase.removeChannel(channel)
Released(n) == n - 1

\* ------------------------------------------------------------ PaymentsPage
InitPage ==
  /\ route = "payments"
  /\ \E v \in Viewers : isAdmin = v[1] /\ clientId = v[2]
  /\ ppPayments = << >>
  /\ ppOpen = FALSE
  /\ ppPaymentToEdit = NoKey
  /\ ppFetches = Issue(NoRequests, QueryOf(isAdmin, clientId))  \* effect: fetchPayments()
  /\ ppChannels = Subscribed(0)                                 \* effect: subscribe()
  /\ crashed = FALSE
  /\ toast = "none"

\* useAuth() yields another user: isAdmin / clientId change, fetchPayments is
\* rebuilt and its effect runs it again; the subscription effect, which has
\* the same dependencies, runs its cleanup and subscribes anew
AuthChange(adm, cid) ==
  /\ route = "payments" /\ ~crashed
  /\ <<adm, cid>> # <<isAdmin, clientId>>
  /\ isAdmin' = adm
  /\ clientId' = cid
  /\ ppFetches' = Issue(ppFetches, QueryOf(adm, cid))
  /\ ppChannels' = Subscribed(Released(ppChannels))
  /\ UNCHANGED <<ppPayments, ppOpen, ppPaymentToEdit, crashed>>
  /\ toast' = "none"

\* fetchPayments: the awaited query resolves with rows; setPayments of a
\* component that has been unmounted changes nothing
FetchPaymentsOk(q, data) ==
  /\ ~crashed
  /\ ppFetches[q] > 0
  /\ ppPayments' = IF route = "payments" THEN SetTo(ppPayments, MapFormat(data))
                   ELSE ppPayments
  /\ ppFetches' = Settle(ppFetches, q)
  /\ UNCHANGED <<isAdmin, clientId, ppOpen, ppPaymentToEdit, ppChannels, crashed>>
  /\ toast' = "none"

\* fetchPayments: the awaited query resolves with an error
FetchPaymentsError(q) ==
  /\ ~crashed
  /\ ppFetches[q] > 0
  /\ ppFetches' = Settle(ppFetches, q)
  /\ toast' = "error"
  /\ UNCHANGED <<isAdmin, clientId, ppPayments, ppOpen, ppPaymentToEdit,
                 ppChannels, crashed>>

\* setPayments(updater): the updater runs while rendering; if it throws, the
\* tree is unmounted (the effects' cleanups run) and the state is left as it
\* was
SetPaymentsOrCrash(throws, next) ==
  IF throws
  THEN crashed' = TRUE /\ ppChannels' = Released(ppChannels) /\ UNCHANGED ppPayments
  ELSE ppPayments' = next /\ UNCHANGED <<crashed, ppChannels>>

\* subscription handler for INSERT on table payments
OnInserted(row) ==
  /\ ~crashed /\ ppChannels > 0
  /\ LET newPayment == FormatPayment(row)
     IN IF PassesMergeTest(isAdmin, clientId, newPayment)
        THEN SetPaymentsOrCrash(UpsertThrows(ppPayments, newPayment),
                                UpsertFront(ppPayments, newPayment))
        ELSE UNCHANGED <<ppPayments, crashed, ppChannels>>
  /\ UNCHANGED <<isAdmin, clientId, ppOpen, ppPaymentToEdit, ppFetches>>
  /\ toast' = "none"

\* subscription handler for DELETE on table payments
OnDeleted(id) ==
  /\ ~crashed /\ ppChannels > 0
  /\ SetPaymentsOrCrash(RemoveThrows(ppPayments), RemoveById(ppPayments, id))
  /\ UNCHANGED <<isAdmin, clientId, ppOpen, ppPaymentToEdit, ppFetches>>
  /\ toast' = "none"

\* handlePaymentSaved(newPayment). Its parameter is declared a Payment;
\* AddPaymentDialog calls onPaymentSaved() without an argument, inside the
\* try block of its onSubmit and after its toast.success
HandlePaymentSaved(newPayment) ==
  /\ route = "payments" /\ ~crashed
  /\ IF ~isAdmin /\ newPayment = UndefinedPayment
     THEN \* newPayment.clientId throws; onSubmit catches and reports
          /\ toast' = "error"
          /\ UNCHANGED <<ppPayments, ppOpen, ppPaymentToEdit, crashed, ppChannels>>
     ELSE /\ IF PassesMergeTest(isAdmin, clientId, newPayment)
             THEN SetPaymentsOrCrash(UpsertThrows(ppPayments, newPayment),
                                     UpsertFront(ppPayments, newPayment))
             ELSE UNCHANGED <<ppPayments, crashed, ppChannels>>
          /\ ppOpen' = FALSE
          /\ ppPaymentToEdit' = NoKey
          /\ toast' = (IF ppSubmit = "stored" THEN "success" ELSE "none")
  /\ UNCHANGED <<isAdmin, clientId, ppFetches>>

\* handlePaymentDeleted(paymentId), handed to PaymentList as onDelete
HandlePaymentDeleted(paymentId) ==
  /\ route = "payments" /\ ~crashed
  /\ SetPaymentsOrCrash(RemoveThrows(ppPayments), RemoveById(ppPayments, paymentId))
  /\ UNCHANGED <<isAdmin, clientId, ppOpen, ppPaymentToEdit, ppFetches>>
  /\ toast' = "none"

\* no handler is registered for UPDATE on table payments: the subscription
\* names INSERT and DELETE only, so an update of a row reaches no code
OnUpdated(row) ==
  /\ ~crashed /\ ppChannels > 0
  /\ UNCHANGED <<isAdmin, clientId, pageVars, crashed, toast>>

\* the route changes and PaymentsPage is unmounted: the cleanup of the
\* subscription effect runs; nothing cancels the fetches under way
UnmountPage ==
  /\ route = "payments" /\ ~crashed
  /\ route' = "elsewhere"
  /\ ppChannels' = Released(ppChannels)
  /\ toast' = "none"
  /\ UNCHANGED <<isAdmin, clientId, ppPayments, ppOpen, ppPaymentToEdit,
                 ppFetches, crashed>>

\* ------------------------------------------------------ backend: payments
\* payload of a postgres_changes event: payload.new / payload.old
InsertEvent(row) == [event |-> "INSERT", new |-> row]
DeleteEvent(id) == [event |-> "DELETE", old |-> id]

\* the backend has read the rows for no fetch
NoSnapshots == [q \in Queries |-> {}]

\* no write of AddPaymentDialog awaits an answer, no event is under way, no
\* response to a fetch of the page
\* ------------------------------------------------------ routing: the guard
\* what useAuth() yields as user: none, or a user whose role may not be
\* known yet; "guest" stands for any role outside admin and client
NoUser == [none |-> TRUE]
Roles == {"admin", "client", "guest"}
Users == [role : Roles \cup {Undefined}, clientId : {"c1", Undefined}]

DefaultRoles == {"admin", "client"}     \* allowedRoles = ['admin', 'client']

\* <Navigate to={path} replace /> and what else a route element renders
NavigateTo(path) == [navigate |-> path]
Spinner == [renders |-> "spinner"]
Renders(page) == [renders |-> page]

ProtectedRouteLax(isLoading, user, allowedRoles, children) ==
  IF isLoading \/ (user # NoUser /\ user.role = Undefined) THEN Spinner
  ELSE IF user = NoUser THEN NavigateTo("/login")
  ELSE children

\* ProtectedRoute: spinner, Navigate or children
ProtectedRoute(isLoading, user, allowedRoles, children) ==
  IF isLoading \/ (user # NoUser /\ user.role = Undefined) THEN Spinner
  ELSE IF user = NoUser THEN NavigateTo("/login")
  ELSE IF user.role \notin allowedRoles THEN NavigateTo("/unauthorized")
  ELSE children

\* the pages under /dashboard, rendered in the Outlet of AppLayout
DashboardPaths ==
  {"/dashboard", "/dashboard/clients", "/dashboard/tasks", "/dashboard/payments",
   "/dashboard/settings"}
PublicPaths == {"/", "/login", "/unauthorized"}
Paths == DashboardPaths \cup PublicPaths

Outlet(isLoading, user, path) ==
  CASE path = "/dashboard" -> Renders("DashboardPage")
    [] path = "/dashboard/clients" ->
         ProtectedRoute(isLoading, user, {"admin"}, Renders("ClientsPage"))
    [] path = "/dashboard/tasks" -> Renders("TasksPage")
    [] path = "/dashboard/payments" -> Renders("PaymentsPage")
    [] path = "/dashboard/settings" -> Renders("SettingsPage")

\* AppRoutes: what is on screen at a path
AppRoutes(isLoading, user, path) ==
  IF isLoading THEN Spinner
  ELSE CASE path = "/" ->
              IF user # NoUser THEN NavigateTo("/dashboard") ELSE NavigateTo("/login")
         [] path = "/login" -> Renders("LoginPage")
         [] path = "/unauthorized" -> Renders("UnauthorizedPage")
         [] path \in DashboardPaths ->
              ProtectedRoute(isLoading, user, DefaultRoles,
                             Outlet(isLoading, user, path))

\* the user and the path the pages are modelled under
UserOf(adm, cid) == [role |-> IF adm THEN "admin" ELSE "client", clientId |-> cid]
PathOf(r) ==
  IF r = "payments" THEN "/dashboard/payments"
  ELSE IF r = "tasks" THEN "/dashboard/tasks" ELSE "/dashboard"
Routed ==
  /\ authIsLoading = FALSE
  /\ authUser = UserOf(isAdmin, clientId)
  /\ location = PathOf(route)

\* the form of AddPaymentDialog as it is constructed: defaultValues with
\* clientId '' and taskId '', tasks [], isLoadingTasks false
Unselected == ""
FormConstructed ==
  /\ adClientId = Unselected
  /\ adTaskId = NoKey
  /\ adTasks = {}
  /\ adIsLoadingTasks = FALSE
  /\ adFetches = [c \in Clients |-> 0]

DialogIdle ==
  ppSubmit = "none" /\ dbEvents = {} /\ dbSnapshot = NoSnapshots /\ FormConstructed

Absent == [absent |-> TRUE]          \* no row under a primary key

\* the rows table payments starts with: per primary key an invoiced payment of
\* client c1, a received payment of client c2, or none
StoredRows(k) ==
  {[id |-> k, client_id |-> "c1", status |-> "invoiced", updated_at |-> EarliestStamp],
   [id |-> k, client_id |-> "c2", status |-> "received", updated_at |-> EarliestStamp]}

PaymentTables ==
  {t \in [Keys -> PaymentRow \cup {Absent}] :
      \A k \in Keys : t[k] # Absent => t[k] \in StoredRows(k)}

EmptyTable == [k \in Keys |-> Absent]

\* select('*') with the filters of query q: the matching rows among keys 1..n
RECURSIVE TableRows(_, _, _)
TableRows(table, q, n) ==
  IF n = 0 THEN << >>
  ELSE TableRows(table, q, n - 1) \o
       (IF table[n] # Absent /\ QueryMatches(q, table[n])
        THEN <<table[n]>> ELSE << >>)

LoadOps == {"loadPayments", "loadClients", "loadTasks"}
WriteOps == {"delete", "invoice", "complete"}

\* delete().eq('id', id) / update({status: ..., updated_at: ...}).eq('id', id);
\* an update or delete that matches no row changes nothing and reports no
\* error
ApplyWrite(table, op, id) ==
  CASE op = "delete" -> [table EXCEPT ![id] = Absent]
    [] op = "invoice" ->
         IF table[id] = Absent THEN table
         ELSE [table EXCEPT ![id].status = "invoiced",
                            ![id].updated_at = LatestStamp]
    [] op = "complete" ->
         IF table[id] = Absent THEN table
         ELSE [table EXCEPT ![id].status = "received",
                            ![id].updated_at = LatestStamp]

\* tables clients and tasks are not written by these views
ClientTable == Clients
TaskTable == TaskKeys

\* ------------------------------------------------------------- withTimeout
TimeoutMs == 5000        \* withTimeout(..., 5000)
PayNowDelayMs == 3000    \* setTimeout(() => handlePaymentCompleted(payment), 3000)

\* a request sent through withTimeout: the operation, its argument (the query
\* of a payments fetch, the key of a write), the time the racing timer has
\* run, whether the caller still awaits the race, and what the backend has
\* made of the request so far
NewRequest(op, arg) ==
  [op |-> op, arg |-> arg, elapsed |-> 0, awaited |-> TRUE, outcome |-> "pending"]

TimedOutAlways(r) == r.awaited

\* setTimeout(() => reject(new Error(`Operation timed out ...`)), timeoutMs)
TimedOut(r) == r.awaited /\ r.elapsed >= TimeoutMs

\* Promise.race has settled with the timer's rejection; the request promise
\* itself is neither cancelled nor aborted
Orphaned(r) == [r EXCEPT !.awaited = FALSE, !.elapsed = 0]

AfterTimeout(reqs, r) == (reqs \ {r}) \cup {Orphaned(r)}
Settled(reqs, r) == reqs \ {r}
Replaced(reqs, r, op, arg) == (reqs \ {r}) \cup {NewRequest(op, arg)}

\* ------------------------------------------------------------- PaymentList
NoPayment == [null |-> TRUE]         \* selectedPayment: null
NoTimer == [timer |-> "none"]

ErrorToasts == {"error", "timed out"}

\* prev.filter(payment => payment.id !== paymentToDelete)
WithoutPayment(prev, id) == SelectSeq(prev, LAMBDA p : p.id # id)

\* prev.map(p => p.id === id ? { ...p, status, ..., updatedAt: new Date() } : p)
WithStatus(prev, id, status) ==
  [i \in 1..Len(prev) |->
     IF prev[i].id = id
     THEN [prev[i] EXCEPT !.status = status, !.updatedAt = LatestStamp]
     ELSE prev[i]]

Listed(coll, id) == \E i \in 1..Len(coll) : coll[i].id = id

\* the state of the component as its useState calls construct it
ListConstructed ==
  /\ plPayments = << >>
  /\ plClients = {}
  /\ plTasks = {}
  /\ plDeleteDialogOpen = FALSE
  /\ plPaymentToDelete = NoKey
  /\ plPaymentDialogOpen = FALSE
  /\ plSelectedPayment = NoPayment
  /\ plIsLoading = TRUE
  /\ plIsProcessing = FALSE
  /\ plDebounced = "none"
  /\ plPayTimer = NoTimer

\* the component where a specification leaves it aside: constructed, its
\* effect not run
ListIdle == ListConstructed /\ plRequests = {} /\ plDb = EmptyTable

\* mounted: the effect has called loadData, which awaits the payments query
InitList ==
  /\ route = "payments"
  /\ \E v \in Viewers : isAdmin = v[1] /\ clientId = v[2]
  /\ ListConstructed
  /\ plRequests = {NewRequest("loadPayments", QueryOf(isAdmin, clientId))}
  /\ plDb \in PaymentTables
  /\ crashed = FALSE
  /\ toast = "none"

\* the table is rendered (not the skeleton) and no modal dialog covers it
TableUsable ==
  /\ route = "payments"
  /\ ~plIsLoading
  /\ ~plDeleteDialogOpen
  /\ ~(plPaymentDialogOpen /\ plSelectedPayment # NoPayment)

listFlags == <<plDeleteDialogOpen, plPaymentToDelete, plPaymentDialogOpen,
               plSelectedPayment, plIsProcessing, plDebounced, plPayTimer>>

\* loadData: the payments query resolved with rows
LoadPaymentsOk(r) ==
  /\ r \in plRequests /\ r.op = "loadPayments" /\ r.awaited
  /\ plPayments' = SetTo(plPayments, MapFormat(TableRows(plDb, r.arg, NumKeys)))
  /\ plRequests' = Replaced(plRequests, r, "loadClients", NoKey)
  /\ toast' = "none"
  /\ UNCHANGED <<isAdmin, clientId, plClients, plTasks, plIsLoading, listFlags, plDb>>

\* loadData: the clients query resolved
LoadClientsOk(r) ==
  /\ r \in plRequests /\ r.op = "loadClients" /\ r.awaited
  /\ plClients' = ClientTable
  /\ plRequests' = Replaced(plRequests, r, "loadTasks", NoKey)
  /\ toast' = "none"
  /\ UNCHANGED <<isAdmin, clientId, plPayments, plTasks, plIsLoading, listFlags, plDb>>

\* loadData: the tasks query resolved; finally setIsLoading(false)
LoadTasksOk(r) ==
  /\ r \in plRequests /\ r.op = "loadTasks" /\ r.awaited
  /\ plTasks' = TaskTable
  /\ plIsLoading' = FALSE
  /\ plRequests' = Settled(plRequests, r)
  /\ toast' = "none"
  /\ UNCHANGED <<isAdmin, clientId, plPayments, plClients, listFlags, plDb>>

\* loadData: a query resolved with an error; catch, finally
LoadFailed(r) ==
  /\ r \in plRequests /\ r.op \in LoadOps /\ r.awaited
  /\ toast' = "error"
  /\ plIsLoading' = FALSE
  /\ plRequests' = Settled(plRequests, r)
  /\ UNCHANGED <<isAdmin, clientId, plPayments, plClients, plTasks, listFlags, plDb>>

\* loadData: the timer of withTimeout won the race; catch, finally
LoadTimedOut(r) ==
  /\ r \in plRequests /\ r.op \in LoadOps /\ TimedOut(r)
  /\ toast' = "timed out"
  /\ plIsLoading' = FALSE
  /\ plRequests' = AfterTimeout(plRequests, r)
  /\ UNCHANGED <<isAdmin, clientId, plPayments, plClients, plTasks, listFlags, plDb>>

\* the answer to a query nobody awaits any more
LateAnswer(r) ==
  /\ r \in plRequests /\ r.op \in LoadOps /\ ~r.awaited
  /\ plRequests' = Settled(plRequests, r)
  /\ UNCHANGED <<isAdmin, clientId, plPayments, plClients, plTasks, plIsLoading,
                 listFlags, plDb>>
  /\ toast' = "none"

\* confirmDelete(paymentId), the admin's Delete menu item
ConfirmDelete(id) ==
  /\ TableUsable /\ isAdmin /\ ~plIsProcessing
  /\ Listed(plPayments, id)
  /\ plPaymentToDelete' = id
  /\ plDebounced' = "open"
  /\ toast' = "none"
  /\ UNCHANGED <<isAdmin, clientId, plPayments, plClients, plTasks, plIsLoading,
                 plDeleteDialogOpen, plPaymentDialogOpen, plSelectedPayment,
                 plIsProcessing, plPayTimer, plRequests, plDb>>

\* the trailing call of debounce((open) => setDeleteDialogOpen(open), 300)
DebouncedFire ==
  /\ route = "payments"
  /\ plDebounced # "none"
  /\ plDeleteDialogOpen' = (plDebounced = "open")
  /\ plDebounced' = "none"
  /\ UNCHANGED <<isAdmin, clientId, plPayments, plClients, plTasks, plIsLoading,
                 plPaymentToDelete, plPaymentDialogOpen, plSelectedPayment,
                 plIsProcessing, plPayTimer, plRequests, plDb>>
  /\ toast' = "none"

\* DeleteDialog: onOpenChange(false) (Cancel, Escape, click outside)
DismissDeleteDialog ==
  /\ route = "payments" /\ ~plIsLoading /\ plDeleteDialogOpen
  /\ plDebounced' = "close"
  /\ UNCHANGED <<isAdmin, clientId, plPayments, plClients, plTasks, plIsLoading,
                 plDeleteDialogOpen, plPaymentToDelete, plPaymentDialogOpen,
                 plSelectedPayment, plIsProcessing, plPayTimer, plRequests,
                 plDb>>
  /\ toast' = "none"

\* handleDelete up to its await, the Delete button of DeleteDialog
HandleDelete ==
  /\ route = "payments" /\ ~plIsLoading /\ plDeleteDialogOpen /\ ~plIsProcessing
  /\ IF plPaymentToDelete = NoKey
     THEN /\ plDebounced' = "close"
          /\ UNCHANGED <<plIsProcessing, plRequests>>
     ELSE /\ Cardinality(plRequests) < MaxRequests
          /\ plIsProcessing' = TRUE
          /\ plRequests' = plRequests \cup {NewRequest("delete", plPaymentToDelete)}
          /\ UNCHANGED plDebounced
  /\ toast' = "none"
  /\ UNCHANGED <<isAdmin, clientId, plPayments, plClients, plTasks, plIsLoading,
                 plDeleteDialogOpen, plPaymentToDelete, plPaymentDialogOpen,
                 plSelectedPayment, plPayTimer, plDb>>

\* finally of handleDelete
DeleteFinally ==
  /\ plIsProcessing' = FALSE
  /\ plPaymentToDelete' = NoKey
  /\ plDebounced' = "close"
  /\ UNCHANGED <<isAdmin, clientId, plClients, plTasks, plIsLoading,
                 plDeleteDialogOpen, plPaymentDialogOpen, plSelectedPayment,
                 plPayTimer, plDb>>

\* handleDelete: the delete resolved without error
DeleteOk(r) ==
  /\ r \in plRequests /\ r.op = "delete" /\ r.awaited /\ r.outcome = "ok"
  /\ plPayments' = WithoutPayment(plPayments, r.arg)
  /\ toast' = "success"
  /\ plRequests' = Settled(plRequests, r)
  /\ DeleteFinally

\* handleDelete: the delete resolved with an error
DeleteFailed(r) ==
  /\ r \in plRequests /\ r.op = "delete" /\ r.awaited /\ r.outcome = "error"
  /\ toast' = "error"
  /\ plRequests' = Settled(plRequests, r)
  /\ UNCHANGED plPayments
  /\ DeleteFinally

DeleteTimedOutDropping(r) ==
  /\ r \in plRequests /\ r.op = "delete" /\ TimedOut(r)
  /\ toast' = "timed out"
  /\ plRequests' = AfterTimeout(plRequests, r)
  /\ plPayments' = WithoutPayment(plPayments, r.arg)
  /\ DeleteFinally

\* handleDelete: the timer of withTimeout won the race
DeleteTimedOut(r) ==
  /\ r \in plRequests /\ r.op = "delete" /\ TimedOut(r)
  /\ toast' = "timed out"
  /\ plRequests' = AfterTimeout(plRequests, r)
  /\ UNCHANGED plPayments
  /\ DeleteFinally

\* generateInvoice(paymentId) up to its await, the admin's menu item; the
\* payment is found, the item being rendered from the same payments
GenerateInvoice(id) ==
  /\ TableUsable /\ isAdmin /\ ~plIsProcessing
  /\ Listed(plPayments, id)
  /\ Cardinality(plRequests) < MaxRequests
  /\ plIsProcessing' = TRUE
  /\ plRequests' = plRequests \cup {NewRequest("invoice", id)}
  /\ toast' = "none"
  /\ UNCHANGED <<isAdmin, clientId, plPayments, plClients, plTasks, plIsLoading,
                 plDeleteDialogOpen, plPaymentToDelete, plPaymentDialogOpen,
                 plSelectedPayment, plDebounced, plPayTimer, plDb>>

ProcessingStays ==
  /\ plIsProcessing' = plIsProcessing
  /\ UNCHANGED <<isAdmin, clientId, plClients, plTasks, plIsLoading,
                 plDeleteDialogOpen, plPaymentToDelete, plDebounced,
                 plPayTimer, plDb>>

\* finally of generateInvoice and of handlePaymentCompleted
ProcessingFinally ==
  /\ plIsProcessing' = FALSE
  /\ UNCHANGED <<isAdmin, clientId, plClients, plTasks, plIsLoading,
                 plDeleteDialogOpen, plPaymentToDelete, plDebounced,
                 plPayTimer, plDb>>

InvoiceOk(r) ==
  /\ r \in plRequests /\ r.op = "invoice" /\ r.awaited /\ r.outcome = "ok"
  /\ plPayments' = WithStatus(plPayments, r.arg, "invoiced")
  /\ toast' = "success"
  /\ plRequests' = Settled(plRequests, r)
  /\ UNCHANGED <<plPaymentDialogOpen, plSelectedPayment>>
  /\ ProcessingFinally

InvoiceFailed(r) ==
  /\ r \in plRequests /\ r.op = "invoice" /\ r.awaited /\ r.outcome = "error"
  /\ toast' = "error"
  /\ plRequests' = Settled(plRequests, r)
  /\ UNCHANGED <<plPayments, plPaymentDialogOpen, plSelectedPayment>>
  /\ ProcessingFinally

InvoiceTimedOut(r) ==
  /\ r \in plRequests /\ r.op = "invoice" /\ TimedOut(r)
  /\ toast' = "timed out"
  /\ plRequests' = AfterTimeout(plRequests, r)
  /\ UNCHANGED <<plPayments, plPaymentDialogOpen, plSelectedPayment>>
  /\ ProcessingFinally

\* initiatePayment(payment), the Pay Now button of a non-admin's row
InitiatePayment(p) ==
  /\ TableUsable /\ ~isAdmin /\ ~plIsProcessing
  /\ \E i \in 1..Len(plPayments) : plPayments[i] = p
  /\ p.status \in {"invoiced", "pending", "overdue"}
  /\ plSelectedPayment' = p
  /\ plPaymentDialogOpen' = TRUE
  /\ toast' = "none"
  /\ UNCHANGED <<isAdmin, clientId, plPayments, plClients, plTasks, plIsLoading,
                 plDeleteDialogOpen, plPaymentToDelete, plIsProcessing,
                 plDebounced, plPayTimer, plRequests, plDb>>

\* the payment dialog: onOpenChange(false) / Cancel
DismissPaymentDialog ==
  /\ route = "payments" /\ ~plIsLoading
  /\ plPaymentDialogOpen /\ plSelectedPayment # NoPayment
  /\ plPaymentDialogOpen' = FALSE
  /\ UNCHANGED <<isAdmin, clientId, plPayments, plClients, plTasks, plIsLoading,
                 plDeleteDialogOpen, plPaymentToDelete, plSelectedPayment,
                 plIsProcessing, plDebounced, plPayTimer, plRequests, plDb>>
  /\ toast' = "none"

\* handlePayNow(selectedPayment), the Proceed button of the payment dialog
HandlePayNow ==
  /\ route = "payments" /\ ~plIsLoading
  /\ plPaymentDialogOpen /\ plSelectedPayment # NoPayment /\ ~plIsProcessing
  /\ Cardinality(plRequests) < MaxRequests
  /\ plIsProcessing' = TRUE
  /\ toast' = "success"
  /\ plPayTimer' = [payment |-> plSelectedPayment, elapsed |-> 0]
  /\ UNCHANGED <<isAdmin, clientId, plPayments, plClients, plTasks, plIsLoading,
                 plDeleteDialogOpen, plPaymentToDelete, plPaymentDialogOpen,
                 plSelectedPayment, plDebounced, plRequests, plDb>>

\* the timer of handlePayNow fires: handlePaymentCompleted(payment) up to its
\* await. Nothing clears the timer when the component is unmounted; the
\* setIsProcessing of an unmounted component changes nothing
PayTimerFired ==
  /\ plPayTimer # NoTimer /\ plPayTimer.elapsed >= PayNowDelayMs
  /\ plIsProcessing' = (IF route = "payments" THEN TRUE ELSE plIsProcessing)
  /\ plRequests' = plRequests \cup {NewRequest("complete", plPayTimer.payment.id)}
  /\ plPayTimer' = NoTimer
  /\ UNCHANGED <<isAdmin, clientId, plPayments, plClients, plTasks, plIsLoading,
                 plDeleteDialogOpen, plPaymentToDelete, plPaymentDialogOpen,
                 plSelectedPayment, plDebounced, plDb>>
  /\ toast' = "none"

CompleteOk(r) ==
  /\ r \in plRequests /\ r.op = "complete" /\ r.awaited /\ r.outcome = "ok"
  /\ plPayments' = WithStatus(plPayments, r.arg, "received")
  /\ plPaymentDialogOpen' = FALSE
  /\ plSelectedPayment' = NoPayment
  /\ toast' = "success"
  /\ plRequests' = Settled(plRequests, r)
  /\ ProcessingFinally

CompleteFailed(r) ==
  /\ r \in plRequests /\ r.op = "complete" /\ r.awaited /\ r.outcome = "error"
  /\ toast' = "error"
  /\ plRequests' = Settled(plRequests, r)
  /\ UNCHANGED <<plPayments, plPaymentDialogOpen, plSelectedPayment>>
  /\ ProcessingFinally

CompleteTimedOut(r) ==
  /\ r \in plRequests /\ r.op = "complete" /\ TimedOut(r)
  /\ toast' = "timed out"
  /\ plRequests' = AfterTimeout(plRequests, r)
  /\ UNCHANGED <<plPayments, plPaymentDialogOpen, plSelectedPayment>>
  /\ ProcessingFinally

\* the backend carries out a write it was sent, awaited or not
BackendApply(r) ==
  /\ r \in plRequests /\ r.op \in WriteOps /\ r.outcome = "pending"
  /\ plDb' = ApplyWrite(plDb, r.op, r.arg)
  /\ plRequests' = IF r.awaited
                   THEN (plRequests \ {r}) \cup {[r EXCEPT !.outcome = "ok"]}
                   ELSE Settled(plRequests, r)
  /\ UNCHANGED <<isAdmin, clientId, plPayments, plClients, plTasks, plIsLoading,
                 listFlags>>
  /\ toast' = "none"

\* the backend refuses a write it was sent
BackendReject(r) ==
  /\ r \in plRequests /\ r.op \in WriteOps /\ r.outcome = "pending"
  /\ plRequests' = IF r.awaited
                   THEN (plRequests \ {r}) \cup {[r EXCEPT !.outcome = "error"]}
                   ELSE Settled(plRequests, r)
  /\ UNCHANGED <<isAdmin, clientId, plPayments, plClients, plTasks, plIsLoading,
                 listFlags, plDb>>
  /\ toast' = "none"

\* TickMs milliseconds pass: every running timer has run that much longer.
\* A timer that is due fires before more time passes, and so does the
\* debounced call, whose 300 ms are less than a tick.
Tick ==
  /\ (\E r \in plRequests : r.awaited) \/ plPayTimer # NoTimer
  /\ \A r \in plRequests : r.awaited => r.elapsed < TimeoutMs
  /\ plPayTimer # NoTimer => plPayTimer.elapsed < PayNowDelayMs
  /\ plDebounced = "none"
  /\ plRequests' = {IF r.awaited THEN [r EXCEPT !.elapsed = @ + TickMs] ELSE r :
                      r \in plRequests}
  /\ plPayTimer' = IF plPayTimer = NoTimer THEN NoTimer
                   ELSE [plPayTimer EXCEPT !.elapsed = @ + TickMs]
  /\ UNCHANGED <<isAdmin, clientId, plPayments, plClients, plTasks, plIsLoading,
                 plDeleteDialogOpen, plPaymentToDelete, plPaymentDialogOpen,
                 plSelectedPayment, plIsProcessing, plDebounced, plDb>>
  /\ toast' = "none"

\* the route changes and PaymentList is unmounted: the cleanup of its effect
\* cancels the debounced call; the queries and writes under way and the timer
\* of handlePayNow are left running
UnmountList ==
  /\ route = "payments"
  /\ route' = "elsewhere"
  /\ plDebounced' = "none"
  /\ toast' = "none"
  /\ UNCHANGED <<isAdmin, clientId, plPayments, plClients, plTasks, plIsLoading,
                 plDeleteDialogOpen, plPaymentToDelete, plPaymentDialogOpen,
                 plSelectedPayment, plIsProcessing, plPayTimer, plRequests, plDb>>

\* the query loadData sends after the one that was answered
NextLoad(op) == IF op = "loadPayments" THEN "loadClients" ELSE "loadTasks"

\* loadData of the unmounted component goes on: a query is answered with rows,
\* the set-state calls change nothing, the next query is sent
LoadAnsweredUnmounted(r) ==
  /\ route = "elsewhere"
  /\ r \in plRequests /\ r.op \in LoadOps /\ r.awaited
  /\ plRequests' = IF r.op = "loadTasks" THEN Settled(plRequests, r)
                   ELSE Replaced(plRequests, r, NextLoad(r.op), NoKey)
  /\ toast' = "none"
  /\ UNCHANGED <<isAdmin, clientId, plPayments, plClients, plTasks, plIsLoading,
                 listFlags, plDb>>

\* loadData of the unmounted component: a query failed or timed out; catch
LoadFailedUnmounted(r) ==
  /\ route = "elsewhere"
  /\ r \in plRequests /\ r.op \in LoadOps /\ r.awaited
  /\ plRequests' = IF TimedOut(r) THEN AfterTimeout(plRequests, r)
                   ELSE Settled(plRequests, r)
  /\ toast' = (IF TimedOut(r) THEN "timed out" ELSE "error")
  /\ UNCHANGED <<isAdmin, clientId, plPayments, plClients, plTasks, plIsLoading,
                 listFlags, plDb>>

\* a write handler of the unmounted component resumes after its await: the
\* toast is shown, the set-state calls change nothing
WriteAnsweredUnmounted(r) ==
  /\ route = "elsewhere"
  /\ r \in plRequests /\ r.op \in WriteOps /\ r.awaited
  /\ r.outcome # "pending" \/ TimedOut(r)
  /\ plRequests' = IF r.outcome # "pending" THEN Settled(plRequests, r)
                   ELSE AfterTimeout(plRequests, r)
  /\ toast' = (IF r.outcome = "ok" THEN "success"
               ELSE IF r.outcome = "error" THEN "error" ELSE "timed out")
  /\ UNCHANGED <<isAdmin, clientId, plPayments, plClients, plTasks, plIsLoading,
                 listFlags, plDb>>

\* ---------------------------------------------------------------- TasksPage
TaskInputStatuses == {"requirements", "complete"}
TaskRow == [id : TaskKeys, client_id : Clients, status : TaskInputStatuses]
Task == [id : TaskKeys, clientId : Clients, status : TaskInputStatuses]
NoTask == [null |-> TRUE]            \* taskToEdit: null

\* data.map((task) => ({ id: task.id, clientId: task.client_id, ... }))
FormatTask(row) ==
  [id |-> row.id, clientId |-> row.client_id, status |-> row.status]

\* the column names the handlers write
TaskAsRow(task) ==
  [id |-> task.id, client_id |-> task.clientId, status |-> task.status]

\* the tasks the table starts with and the tasks the form creates: one with
\* an odd key belongs to client c1, one with an even key to client c2
ClientOfKey(k) == IF k % 2 = 1 THEN "c1" ELSE "c2"

\* the states table tasks starts in: per primary key a task in status
\* requirements, or none
TaskTables ==
  {t \in [TaskKeys -> TaskRow \cup {Absent}] :
      \A k \in TaskKeys :
         t[k] # Absent =>
            t[k] = [id |-> k, client_id |-> ClientOfKey(k), status |-> "requirements"]}

\* query.eq('client_id', clientId) unless the user is an admin
TaskQueryOf(adm, cid) == IF adm THEN "all" ELSE cid
TaskQueryMatches(q, row) == q = "all" \/ row.client_id = q

RECURSIVE TaskRows(_, _, _)
TaskRows(table, q, n) ==
  IF n = 0 THEN << >>
  ELSE TaskRows(table, q, n - 1) \o
       (IF table[n] # Absent /\ TaskQueryMatches(q, table[n])
        THEN <<FormatTask(table[n])>> ELSE << >>)

EmptyTaskTable == [k \in TaskKeys |-> Absent]

\* a sequence without its i-th element
RemoveAt(seq, i) == SubSeq(seq, 1, i - 1) \o SubSeq(seq, i + 1, Len(seq))

TaskListed(coll, id) == \E i \in 1..Len(coll) : coll[i].id = id

\* tasks.map(task => task.id === updatedTask.id ? updatedTask : task)
ReplaceTask(coll, updatedTask) ==
  [i \in 1..Len(coll) |->
     IF coll[i].id = updatedTask.id THEN updatedTask ELSE coll[i]]

\* tasks.filter(task => task.id !== taskId)
WithoutTask(coll, taskId) == SelectSeq(coll, LAMBDA t : t.id # taskId)

\* update(...).eq('id', id): a row that is not there is not written
UpdateRow(table, task) ==
  IF table[task.id] = Absent THEN table
  ELSE [table EXCEPT ![task.id] = TaskAsRow(task)]

\* the keys an insert may be stored under: the id that was sent, or one the
\* backend assigns; none when the id sent is taken (primary key)
AssignableKeys(table, id) ==
  IF table[id] # Absent THEN {} ELSE {k \in TaskKeys : table[k] = Absent}

\* the row an insert of a task leaves under the key it is stored at
StoredAs(task, k) ==
  [id |-> k, client_id |-> task.clientId, status |-> task.status]

\* the requests awaiting the backend are kept in the order they were sent.
\* A write awaiting the backend: the operation, the task it carries, the
\* tasks array its handler closed over, and whether AddTaskDialog awaits it
TaskRequest(op, task, closure, dialog) ==
  [op |-> op, task |-> task, tasks |-> closure, dialog |-> dialog]
FetchRequest(q) == [op |-> "fetch", q |-> q]

TaskMutationOps == {"dialogInsert", "dialogUpdate", "insert", "update", "delete"}

\* the state of the component as its useState calls construct it
TasksConstructed ==
  /\ tpTasks = << >>
  /\ tpIsAddDialogOpen = FALSE
  /\ tpTaskToEdit = NoTask
  /\ tpIsLoading = TRUE

\* the component where a specification leaves it aside
TasksIdle == TasksConstructed /\ tpRequests = << >> /\ tpDb = EmptyTaskTable

\* mounted: the effect has called fetchTasks, which awaits the query
InitTasks ==
  /\ route = "tasks"
  /\ \E v \in Viewers : isAdmin = v[1] /\ clientId = v[2]
  /\ TasksConstructed
  /\ tpRequests = <<FetchRequest(TaskQueryOf(isAdmin, clientId))>>
  /\ tpDb \in TaskTables
  /\ crashed = FALSE
  /\ toast = "none"

\* TaskList is rendered, with the admin's handlers, and no dialog covers it
TaskListUsable ==
  /\ route = "tasks" /\ isAdmin
  /\ ~tpIsLoading /\ tpTasks # << >>
  /\ ~tpIsAddDialogOpen

CanIssue == Len(tpRequests) < MaxRequests

\* fetchTasks: the query resolved with rows
FetchTasksOk(i) ==
  /\ i \in 1..Len(tpRequests) /\ tpRequests[i].op = "fetch"
  /\ tpTasks' = TaskRows(tpDb, tpRequests[i].q, NumTaskKeys)
  /\ tpIsLoading' = FALSE
  /\ tpRequests' = RemoveAt(tpRequests, i)
  /\ toast' = "none"
  /\ UNCHANGED <<isAdmin, clientId, tpIsAddDialogOpen, tpTaskToEdit, tpDb>>

\* fetchTasks: the query resolved with an error
FetchTasksFailed(i) ==
  /\ i \in 1..Len(tpRequests) /\ tpRequests[i].op = "fetch"
  /\ tpIsLoading' = FALSE
  /\ tpRequests' = RemoveAt(tpRequests, i)
  /\ toast' = "error"
  /\ UNCHANGED <<isAdmin, clientId, tpTasks, tpIsAddDialogOpen, tpTaskToEdit, tpDb>>

\* the New Task button
ClickNewTask ==
  /\ route = "tasks" /\ isAdmin /\ ~tpIsAddDialogOpen
  /\ tpTaskToEdit' = NoTask
  /\ tpIsAddDialogOpen' = TRUE
  /\ toast' = "none"
  /\ UNCHANGED <<isAdmin, clientId, tpTasks, tpIsLoading, tpRequests, tpDb>>

\* handleEditTask(task)
HandleEditTask(task) ==
  /\ TaskListUsable
  /\ \E i \in 1..Len(tpTasks) : tpTasks[i] = task
  /\ tpTaskToEdit' = task
  /\ tpIsAddDialogOpen' = TRUE
  /\ toast' = "none"
  /\ UNCHANGED <<isAdmin, clientId, tpTasks, tpIsLoading, tpRequests, tpDb>>

\* onClose of AddTaskDialog (Cancel, Escape, click outside)
CloseTaskDialog ==
  /\ route = "tasks" /\ isAdmin /\ tpIsAddDialogOpen
  /\ tpIsAddDialogOpen' = FALSE
  /\ toast' = "none"
  /\ UNCHANGED <<isAdmin, clientId, tpTasks, tpTaskToEdit, tpIsLoading,
                 tpRequests, tpDb>>

\* AddTaskDialog.onSubmit, create branch, up to its await: the form's default
\* status, an id made from the clock
SubmitCreate(id) ==
  /\ route = "tasks" /\ isAdmin /\ tpIsAddDialogOpen /\ tpTaskToEdit = NoTask
  /\ CanIssue
  /\ ~TaskListed(tpTasks, id)
  /\ \A i \in 1..Len(tpRequests) :
        tpRequests[i].op \in {"dialogInsert", "insert"} => tpRequests[i].task.id # id
  /\ tpRequests' = Append(tpRequests,
         TaskRequest("dialogInsert",
                     [id |-> id, clientId |-> ClientOfKey(id), status |-> "requirements"],
                     tpTasks, TRUE))
  /\ toast' = "none"
  /\ UNCHANGED <<isAdmin, clientId, tpTasks, tpIsAddDialogOpen, tpTaskToEdit,
                 tpIsLoading, tpDb>>

\* AddTaskDialog.onSubmit, edit branch, up to its await
SubmitEdit(status) ==
  /\ route = "tasks" /\ isAdmin /\ tpIsAddDialogOpen /\ tpTaskToEdit # NoTask
  /\ CanIssue
  /\ tpRequests' = Append(tpRequests,
         TaskRequest("dialogUpdate", [tpTaskToEdit EXCEPT !.status = status],
                     tpTasks, TRUE))
  /\ toast' = "none"
  /\ UNCHANGED <<isAdmin, clientId, tpTasks, tpIsAddDialogOpen, tpTaskToEdit,
                 tpIsLoading, tpDb>>

\* onSubmit: the dialog's own insert resolved without error, stored under key
\* k; onAddTask(newTask) = handleAddTask up to its await
DialogInsertOk(i, k) ==
  /\ i \in 1..Len(tpRequests) /\ tpRequests[i].op = "dialogInsert"
  /\ k \in AssignableKeys(tpDb, tpRequests[i].task.id)
  /\ tpDb' = [tpDb EXCEPT ![k] = StoredAs(tpRequests[i].task, k)]
  /\ tpRequests' = [tpRequests EXCEPT ![i].op = "insert"]
  /\ toast' = "none"
  /\ UNCHANGED <<isAdmin, clientId, tpTasks, tpIsAddDialogOpen, tpTaskToEdit,
                 tpIsLoading>>

\* onSubmit: the dialog's own update resolved without error;
\* onUpdateTask(updatedTask) = handleUpdateTask up to its await
DialogUpdateOk(i) ==
  /\ i \in 1..Len(tpRequests) /\ tpRequests[i].op = "dialogUpdate"
  /\ tpDb' = UpdateRow(tpDb, tpRequests[i].task)
  /\ tpRequests' = [tpRequests EXCEPT ![i].op = "update"]
  /\ toast' = "none"
  /\ UNCHANGED <<isAdmin, clientId, tpTasks, tpIsAddDialogOpen, tpTaskToEdit,
                 tpIsLoading>>

\* onSubmit: the dialog's own write resolved with an error; catch
DialogWriteFailed(i) ==
  /\ i \in 1..Len(tpRequests) /\ tpRequests[i].op \in {"dialogInsert", "dialogUpdate"}
  /\ tpRequests' = RemoveAt(tpRequests, i)
  /\ toast' = "error"
  /\ UNCHANGED <<isAdmin, clientId, tpTasks, tpIsAddDialogOpen, tpTaskToEdit,
                 tpIsLoading, tpDb>>

\* what AddTaskDialog.onSubmit does once the handler it awaited has returned:
\* toast.success(...), onClose()
AfterHandler(r, raised) ==
  IF r.dialog
  THEN /\ tpIsAddDialogOpen' = FALSE
       /\ toast' = (IF raised = "error" THEN "error, then success" ELSE "success")
  ELSE /\ UNCHANGED tpIsAddDialogOpen
       /\ toast' = raised

\* handleAddTask: the insert resolved without error, stored under key k
HandleAddTaskOk(i, k) ==
  /\ i \in 1..Len(tpRequests) /\ tpRequests[i].op = "insert"
  /\ k \in AssignableKeys(tpDb, tpRequests[i].task.id)
  /\ tpDb' = [tpDb EXCEPT ![k] = StoredAs(tpRequests[i].task, k)]
  /\ tpTasks' = Append(tpRequests[i].tasks, tpRequests[i].task)
  /\ tpRequests' = RemoveAt(tpRequests, i)
  /\ AfterHandler(tpRequests[i], "success")
  /\ UNCHANGED <<isAdmin, clientId, tpTaskToEdit, tpIsLoading>>

\* handleAddTask: the insert resolved with an error; catch
HandleAddTaskFailed(i) ==
  /\ i \in 1..Len(tpRequests) /\ tpRequests[i].op = "insert"
  /\ tpRequests' = RemoveAt(tpRequests, i)
  /\ AfterHandler(tpRequests[i], "error")
  /\ UNCHANGED <<isAdmin, clientId, tpTasks, tpTaskToEdit, tpIsLoading, tpDb>>

\* handleStatusChange(taskId, newStatus) and the handleUpdateTask it calls,
\* up to the await
HandleStatusChange(taskId, newStatus) ==
  /\ TaskListUsable /\ CanIssue
  /\ \E i \in 1..Len(tpTasks) :
        /\ tpTasks[i].id = taskId
        /\ tpRequests' = Append(tpRequests,
               TaskRequest("update", [tpTasks[i] EXCEPT !.status = newStatus],
                           tpTasks, FALSE))
  /\ toast' = "none"
  /\ UNCHANGED <<isAdmin, clientId, tpTasks, tpIsAddDialogOpen, tpTaskToEdit,
                 tpIsLoading, tpDb>>

\* handleUpdateTask: the update resolved without error
HandleUpdateTaskOk(i) ==
  /\ i \in 1..Len(tpRequests) /\ tpRequests[i].op = "update"
  /\ tpDb' = UpdateRow(tpDb, tpRequests[i].task)
  /\ tpTasks' = ReplaceTask(tpRequests[i].tasks, tpRequests[i].task)
  /\ tpTaskToEdit' = NoTask
  /\ tpRequests' = RemoveAt(tpRequests, i)
  /\ AfterHandler(tpRequests[i], "success")
  /\ UNCHANGED <<isAdmin, clientId, tpIsLoading>>

\* handleUpdateTask: the update resolved with an error; catch
HandleUpdateTaskFailed(i) ==
  /\ i \in 1..Len(tpRequests) /\ tpRequests[i].op = "update"
  /\ tpRequests' = RemoveAt(tpRequests, i)
  /\ AfterHandler(tpRequests[i], "error")
  /\ UNCHANGED <<isAdmin, clientId, tpTasks, tpTaskToEdit, tpIsLoading, tpDb>>

\* handleDeleteTask(taskId) up to its await
HandleDeleteTask(taskId) ==
  /\ TaskListUsable /\ CanIssue
  /\ \E i \in 1..Len(tpTasks) :
        /\ tpTasks[i].id = taskId
        /\ tpRequests' = Append(tpRequests,
               TaskRequest("delete", tpTasks[i], tpTasks, FALSE))
  /\ toast' = "none"
  /\ UNCHANGED <<isAdmin, clientId, tpTasks, tpIsAddDialogOpen, tpTaskToEdit,
                 tpIsLoading, tpDb>>

\* handleDeleteTask: the delete resolved without error
HandleDeleteTaskOk(i) ==
  /\ i \in 1..Len(tpRequests) /\ tpRequests[i].op = "delete"
  /\ tpDb' = [tpDb EXCEPT ![tpRequests[i].task.id] = Absent]
  /\ tpTasks' = WithoutTask(tpRequests[i].tasks, tpRequests[i].task.id)
  /\ tpRequests' = RemoveAt(tpRequests, i)
  /\ toast' = "success"
  /\ UNCHANGED <<isAdmin, clientId, tpIsAddDialogOpen, tpTaskToEdit, tpIsLoading>>

\* handleDeleteTask: the delete resolved with an error; catch
HandleDeleteTaskFailed(i) ==
  /\ i \in 1..Len(tpRequests) /\ tpRequests[i].op = "delete"
  /\ tpRequests' = RemoveAt(tpRequests, i)
  /\ toast' = "error"
  /\ UNCHANGED <<isAdmin, clientId, tpTasks, tpIsAddDialogOpen, tpTaskToEdit,
                 tpIsLoading, tpDb>>

\* ------------------------------------------------------------ observation
\* the handler segment that ran last, the argument it was given where a
\* property refers to it (a row, a key; NoArg otherwise) and whether the
\* collection held the argument's key when the segment started
NoArg == [none |-> TRUE]
KeyArg(id) == [key |-> id]
KeyPresent(coll, id) ==
  \E i \in 1..Len(coll) : coll[i] # UndefinedPayment /\ coll[i].id = id
EntriesFor(coll, id) ==
  Cardinality({i \in 1..Len(coll) : coll[i] # UndefinedPayment /\ coll[i].id = id})
Ran(op, arg, hit) == last' = [op |-> op, arg |-> arg, hit |-> hit]
Mounted == last = [op |-> "mount", arg |-> NoArg, hit |-> FALSE]
PageRan(op, arg, hit) ==
  Ran(op, arg, hit) /\ UNCHANGED <<route, backVars, listVars, tasksVars, writes>>
\* the user useAuth() yields from now on, all else of the back end and the
\* router as it was
UserChanged(adm, cid) ==
  /\ authUser' = UserOf(adm, cid)
  /\ UNCHANGED <<ppSubmit, dbEvents, dbSnapshot, formVars, authIsLoading, location>>
PageAuthChanged(adm, cid) ==
  /\ AuthChange(adm, cid) /\ UserChanged(adm, cid)
  /\ Ran("AuthChange", NoArg, FALSE)
  /\ UNCHANGED <<route, listVars, tasksVars, writes, seen>>
\* n more writes are started, within the bound on a session
Started(n) == writes + n <= MaxWrites /\ writes' = writes + n
ListFrame == UNCHANGED <<route, pageVars, backVars, tasksVars, crashed, last, seen>>
TasksFrame == UNCHANGED <<route, pageVars, backVars, listVars, crashed, last, seen>>

NotSeen == [kind |-> "none"]
NoneSeen == [k \in Keys |-> NotSeen]
Emitted(kind, row) == seen' = [seen EXCEPT ![row.id] = [kind |-> kind, row |-> row]]
EmittedDeleted(id) == seen' = [seen EXCEPT ![id] = [kind |-> "Deleted"]]

\* ------------------------------------------------- PaymentsPage, all handlers
NextPage ==
  \/ \E v \in Viewers :
        InFlight(ppFetches) < MaxInFlight
        /\ PageAuthChanged(v[1], v[2])
  \/ \E q \in Queries : \E data \in InputResults(q) :
        FetchPaymentsOk(q, data) /\ PageRan("FetchPaymentsOk", NoArg, FALSE)
        /\ UNCHANGED seen
  \/ \E q \in Queries :
        FetchPaymentsError(q) /\ PageRan("FetchPaymentsError", NoArg, FALSE)
        /\ UNCHANGED seen
  \/ \E row \in InputRows :
        OnInserted(row) /\ PageRan("OnInserted", row, KeyPresent(ppPayments, row.id))
        /\ UNCHANGED seen
  \/ \E id \in Keys :
        OnDeleted(id) /\ PageRan("OnDeleted", NoArg, FALSE) /\ UNCHANGED seen
  \/ \E p \in InputPayments :
        HandlePaymentSaved(p)
        /\ PageRan("HandlePaymentSaved", NoArg, KeyPresent(ppPayments, p.id))
        /\ UNCHANGED seen
  \/ HandlePaymentSaved(UndefinedPayment)
        /\ PageRan("HandlePaymentSaved", UndefinedPayment, FALSE) /\ UNCHANGED seen
  \/ \E id \in Keys :
        HandlePaymentDeleted(id) /\ PageRan("HandlePaymentDeleted", NoArg, FALSE)
        /\ UNCHANGED seen

InitPageObserved ==
  /\ InitPage /\ DialogIdle /\ Routed /\ ListIdle /\ TasksIdle
  /\ writes = 0 /\ Mounted /\ seen = NoneSeen

SpecPage == InitPageObserved /\ [][NextPage]_vars

\* ------------------------------- PaymentsPage, the change-event merger alone
\* the view after its first fetch has been answered; from then on only change
\* events arrive
InitMerge ==
  /\ route = "payments"
  /\ \E v \in Viewers : isAdmin = v[1] /\ clientId = v[2]
  /\ \E data \in InputResults(QueryOf(isAdmin, clientId)) :
        ppPayments = MapFormat(data)
  /\ ppOpen = FALSE
  /\ ppPaymentToEdit = NoKey
  /\ ppFetches = NoRequests
  /\ ppChannels = Subscribed(0)
  /\ crashed = FALSE
  /\ toast = "none"
  /\ DialogIdle /\ Routed
  /\ ListIdle
  /\ TasksIdle
  /\ writes = 0
  /\ Mounted
  /\ seen = NoneSeen

NextMerge ==
  \/ \E row \in InputRows :
        OnInserted(row) /\ PageRan("OnInserted", row, KeyPresent(ppPayments, row.id))
        /\ Emitted("Inserted", row)
  \/ \E row \in InputRows :
        OnUpdated(row) /\ PageRan("OnUpdated", row, KeyPresent(ppPayments, row.id))
        /\ Emitted("Updated", row)
  \/ \E id \in Keys :
        OnDeleted(id) /\ PageRan("OnDeleted", KeyArg(id), KeyPresent(ppPayments, id))
        /\ EmittedDeleted(id)

SpecMerge == InitMerge /\ [][NextMerge]_vars

\* --------------------------------------------------- PaymentList, all handlers
PageIdle ==
  /\ ppPayments = << >>
  /\ ppOpen = FALSE
  /\ ppPaymentToEdit = NoKey
  /\ ppFetches = NoRequests
  /\ ppChannels = 0
  /\ DialogIdle /\ Routed

InitListObserved ==
  InitList /\ PageIdle /\ TasksIdle /\ writes = 0 /\ Mounted /\ seen = NoneSeen

NextList ==
  \/ \E r \in plRequests : LoadPaymentsOk(r) /\ ListFrame /\ Started(0)
  \/ \E r \in plRequests : LoadClientsOk(r) /\ ListFrame /\ Started(0)
  \/ \E r \in plRequests : LoadTasksOk(r) /\ ListFrame /\ Started(0)
  \/ \E r \in plRequests : LoadFailed(r) /\ ListFrame /\ Started(0)
  \/ \E r \in plRequests : LoadTimedOut(r) /\ ListFrame /\ Started(0)
  \/ \E r \in plRequests : LateAnswer(r) /\ ListFrame /\ Started(0)
  \/ \E id \in Keys : ConfirmDelete(id) /\ ListFrame /\ Started(0)
  \/ DebouncedFire /\ ListFrame /\ Started(0)
  \/ DismissDeleteDialog /\ ListFrame /\ Started(0)
  \/ HandleDelete /\ ListFrame /\ Started(IF plPaymentToDelete = NoKey THEN 0 ELSE 1)
  \/ \E r \in plRequests : DeleteOk(r) /\ ListFrame /\ Started(0)
  \/ \E r \in plRequests : DeleteFailed(r) /\ ListFrame /\ Started(0)
  \/ \E r \in plRequests : DeleteTimedOut(r) /\ ListFrame /\ Started(0)
  \/ \E id \in Keys : GenerateInvoice(id) /\ ListFrame /\ Started(1)
  \/ \E r \in plRequests : InvoiceOk(r) /\ ListFrame /\ Started(0)
  \/ \E r \in plRequests : InvoiceFailed(r) /\ ListFrame /\ Started(0)
  \/ \E r \in plRequests : InvoiceTimedOut(r) /\ ListFrame /\ Started(0)
  \/ \E p \in Payment : InitiatePayment(p) /\ ListFrame /\ Started(0)
  \/ DismissPaymentDialog /\ ListFrame /\ Started(0)
  \/ HandlePayNow /\ ListFrame /\ Started(1)
  \/ PayTimerFired /\ ListFrame /\ Started(0)
  \/ \E r \in plRequests : CompleteOk(r) /\ ListFrame /\ Started(0)
  \/ \E r \in plRequests : CompleteFailed(r) /\ ListFrame /\ Started(0)
  \/ \E r \in plRequests : CompleteTimedOut(r) /\ ListFrame /\ Started(0)
  \/ \E r \in plRequests : BackendApply(r) /\ ListFrame /\ Started(0)
  \/ \E r \in plRequests : BackendReject(r) /\ ListFrame /\ Started(0)
  \/ Tick /\ ListFrame /\ Started(0)

SpecList == InitListObserved /\ [][NextList]_vars

\* the steps the runtime takes by itself while the component is mounted: time
\* passes, a timer that is due runs its callback, and a handler whose awaited
\* race has settled resumes. What the backend does with a request, and what
\* the user does, is left open
ListProgress ==
  /\ \/ Tick
     \/ PayTimerFired
     \/ DebouncedFire
     \/ \E r \in plRequests :
           \/ LoadTimedOut(r)
           \/ DeleteOk(r) \/ DeleteFailed(r) \/ DeleteTimedOut(r)
           \/ InvoiceOk(r) \/ InvoiceFailed(r) \/ InvoiceTimedOut(r)
           \/ CompleteOk(r) \/ CompleteFailed(r) \/ CompleteTimedOut(r)
  /\ ListFrame /\ Started(0)

SpecListLive == SpecList /\ WF_vars(ListProgress)

\* ----------------------- PaymentList, the viewer changing while loadData runs
\* useAuth() yields another user: isAdmin / clientId change, loadData is
\* rebuilt and its effect runs it again, up to its first await; the
\* invocation under way goes on
ListAuthChange(adm, cid) ==
  /\ route = "payments"
  /\ <<adm, cid>> # <<isAdmin, clientId>>
  /\ isAdmin' = adm
  /\ clientId' = cid
  /\ plIsLoading' = TRUE                        \* setIsLoading(true)
  /\ plRequests' = plRequests \cup {NewRequest("loadPayments", QueryOf(adm, cid))}
  /\ toast' = "none"
  /\ UNCHANGED <<plPayments, plClients, plTasks, listFlags, plDb>>

\* the queries of loadData that an invocation still awaits
LoadsAwaited == {r \in plRequests : r.op \in LoadOps /\ r.awaited}

\* every answer arrives before the timer of withTimeout is due; the requests
\* under way at one time are told apart by their query
NextReload ==
  \/ \E v \in Viewers :
        /\ Cardinality(LoadsAwaited) < MaxScopes
        /\ NewRequest("loadPayments", QueryOf(v[1], v[2])) \notin plRequests
        /\ ListAuthChange(v[1], v[2]) /\ UserChanged(v[1], v[2]) /\ Started(0)
        /\ UNCHANGED <<route, pageVars, tasksVars, crashed, last, seen>>
  \/ \E r \in plRequests :
        /\ NewRequest("loadClients", NoKey) \notin plRequests
        /\ LoadPaymentsOk(r) /\ ListFrame /\ Started(0)
  \/ \E r \in plRequests :
        /\ NewRequest("loadTasks", NoKey) \notin plRequests
        /\ LoadClientsOk(r) /\ ListFrame /\ Started(0)
  \/ \E r \in plRequests : LoadTasksOk(r) /\ ListFrame /\ Started(0)
  \/ \E r \in plRequests : LoadFailed(r) /\ ListFrame /\ Started(0)

SpecReload == InitListObserved /\ [][NextReload]_vars

\* ---------------------------------- PaymentList from mount to its teardown
listViewState == <<plPayments, plClients, plTasks, plIsLoading, plDeleteDialogOpen,
                   plPaymentToDelete, plPaymentDialogOpen, plSelectedPayment,
                   plIsProcessing>>

Unmounted(step) == route = "elsewhere" /\ step /\ ListFrame /\ Started(0)

NextTeardown ==
  \/ route = "payments" /\ NextList
  \/ UnmountList /\ Started(0)
        /\ UNCHANGED <<pageVars, backVars, tasksVars, crashed, last, seen>>
  \/ Unmounted(Tick)
  \/ Unmounted(PayTimerFired)
  \/ \E r \in plRequests : Unmounted(BackendApply(r))
  \/ \E r \in plRequests : Unmounted(BackendReject(r))
  \/ \E r \in plRequests : Unmounted(LateAnswer(r))
  \/ \E r \in plRequests : Unmounted(LoadAnsweredUnmounted(r))
  \/ \E r \in plRequests : Unmounted(LoadFailedUnmounted(r))
  \/ \E r \in plRequests : Unmounted(WriteAnsweredUnmounted(r))

SpecTeardown == InitListObserved /\ [][NextTeardown]_vars

\* ----------------------------------------------------- TasksPage, all handlers
InitTasksObserved ==
  InitTasks /\ PageIdle /\ ListIdle /\ writes = 0 /\ Mounted /\ seen = NoneSeen

NextTasks ==
  \/ \E i \in 1..Len(tpRequests) : FetchTasksOk(i) /\ TasksFrame /\ Started(0)
  \/ \E i \in 1..Len(tpRequests) : FetchTasksFailed(i) /\ TasksFrame /\ Started(0)
  \/ ClickNewTask /\ TasksFrame /\ Started(0)
  \/ \E task \in Task : HandleEditTask(task) /\ TasksFrame /\ Started(0)
  \/ CloseTaskDialog /\ TasksFrame /\ Started(0)
  \/ \E id \in TaskKeys : SubmitCreate(id) /\ TasksFrame /\ Started(1)
  \/ \E status \in TaskInputStatuses : SubmitEdit(status) /\ TasksFrame /\ Started(1)
  \/ \E i \in 1..Len(tpRequests) : \E k \in TaskKeys : DialogInsertOk(i, k) /\ TasksFrame /\ Started(0)
  \/ \E i \in 1..Len(tpRequests) : DialogUpdateOk(i) /\ TasksFrame /\ Started(0)
  \/ \E i \in 1..Len(tpRequests) : DialogWriteFailed(i) /\ TasksFrame /\ Started(0)
  \/ \E i \in 1..Len(tpRequests) : \E k \in TaskKeys : HandleAddTaskOk(i, k) /\ TasksFrame /\ Started(0)
  \/ \E i \in 1..Len(tpRequests) : HandleAddTaskFailed(i) /\ TasksFrame /\ Started(0)
  \/ \E id \in TaskKeys : \E status \in TaskInputStatuses :
        HandleStatusChange(id, status) /\ TasksFrame /\ Started(1)
  \/ \E i \in 1..Len(tpRequests) : HandleUpdateTaskOk(i) /\ TasksFrame /\ Started(0)
  \/ \E i \in 1..Len(tpRequests) : HandleUpdateTaskFailed(i) /\ TasksFrame /\ Started(0)
  \/ \E id \in TaskKeys : HandleDeleteTask(id) /\ TasksFrame /\ Started(1)
  \/ \E i \in 1..Len(tpRequests) : HandleDeleteTaskOk(i) /\ TasksFrame /\ Started(0)
  \/ \E i \in 1..Len(tpRequests) : HandleDeleteTaskFailed(i) /\ TasksFrame /\ Started(0)

SpecTasks == InitTasksObserved /\ [][NextTasks]_vars

\* ------------------------------------ the views that write: both, one mounted
InitMutations == InitListObserved \/ InitTasksObserved

NextMutations == NextList \/ NextTasks

SpecMutations == InitMutations /\ [][NextMutations]_vars

\* ------------------- PaymentsPage with the PaymentList it renders, one table
\* both components are mounted over table payments: the page has subscribed
\* and awaits its fetch, the list awaits the payments query of loadData
InitView ==
  /\ InitPage
  /\ DialogIdle /\ Routed
  /\ InitList
  /\ TasksIdle
  /\ writes = 0
  /\ Mounted
  /\ seen = NoneSeen

listState == <<plPayments, plClients, plTasks, plIsLoading, listFlags, plRequests>>

\* a step of the page or of its dialog, PaymentList left as it is; the fetch
\* is answered from the table in one step
ViewFrame == UNCHANGED <<route, listState, tasksVars, dbSnapshot, formVars, authVars>>

\* the Add Payment button
ClickAddPayment ==
  /\ route = "payments" /\ ~crashed /\ isAdmin /\ ~ppOpen
  /\ ppOpen' = TRUE
  /\ toast' = "none"
  /\ UNCHANGED <<isAdmin, clientId, ppPayments, ppPaymentToEdit, ppFetches,
                 ppChannels, crashed, backVars, plDb>>

\* the rows AddPaymentDialog writes: payload.updated_at = new Date()
SubmittedRows == {r \in PaymentRow : r.updated_at = LatestStamp}

\* AddPaymentDialog.onSubmit, create branch, up to its await; the payload has
\* no id, the backend stores the row under a key it assigns and emits the
\* INSERT event
DialogSubmit(row) ==
  /\ route = "payments" /\ ~crashed /\ isAdmin
  /\ ppOpen /\ ppPaymentToEdit = NoKey /\ ppSubmit = "none"
  /\ Cardinality(dbEvents) < MaxInFlight
  /\ plDb[row.id] = Absent
  /\ plDb' = [plDb EXCEPT ![row.id] = row]
  /\ dbEvents' = dbEvents \cup {InsertEvent(row)}
  /\ ppSubmit' = "stored"
  /\ toast' = "none"
  /\ UNCHANGED <<isAdmin, clientId, pageVars, crashed>>

\* onSubmit up to its await; the backend refuses the insert
DialogSubmitRefused ==
  /\ route = "payments" /\ ~crashed /\ isAdmin
  /\ ppOpen /\ ppPaymentToEdit = NoKey /\ ppSubmit = "none"
  /\ ppSubmit' = "refused"
  /\ toast' = "none"
  /\ UNCHANGED <<isAdmin, clientId, pageVars, crashed, dbEvents, plDb>>

\* onSubmit after its await, no error: toast.success, onOpenChange(false),
\* onPaymentSaved()
DialogSaved ==
  /\ ppSubmit = "stored"
  /\ HandlePaymentSaved(UndefinedPayment)
  /\ ppSubmit' = "none"
  /\ UNCHANGED <<dbEvents, plDb>>

\* onSubmit after its await, error: catch
DialogSaveFailed ==
  /\ route = "payments" /\ ~crashed
  /\ ppSubmit = "refused"
  /\ ppSubmit' = "none"
  /\ toast' = "error"
  /\ UNCHANGED <<isAdmin, clientId, pageVars, crashed, dbEvents, plDb>>

\* another session inserts a row; the backend emits the INSERT event
RemoteInsert(row) ==
  /\ Cardinality(dbEvents) < MaxInFlight
  /\ plDb[row.id] = Absent
  /\ plDb' = [plDb EXCEPT ![row.id] = row]
  /\ dbEvents' = dbEvents \cup {InsertEvent(row)}
  /\ toast' = "none"
  /\ UNCHANGED <<isAdmin, clientId, pageVars, crashed, ppSubmit>>

\* another session deletes a row; the backend emits the DELETE event
RemoteDelete(id) ==
  /\ Cardinality(dbEvents) < MaxInFlight
  /\ plDb[id] # Absent
  /\ plDb' = [plDb EXCEPT ![id] = Absent]
  /\ dbEvents' = dbEvents \cup {DeleteEvent(id)}
  /\ toast' = "none"
  /\ UNCHANGED <<isAdmin, clientId, pageVars, crashed, ppSubmit>>

\* an INSERT event reaches the subscription
DeliverInserted(e) ==
  /\ e \in dbEvents /\ e.event = "INSERT"
  /\ OnInserted(e.new)
  /\ dbEvents' = dbEvents \ {e}
  /\ UNCHANGED <<ppSubmit, plDb>>

\* a DELETE event reaches the subscription
DeliverDeleted(e) ==
  /\ e \in dbEvents /\ e.event = "DELETE"
  /\ OnDeleted(e.old)
  /\ dbEvents' = dbEvents \ {e}
  /\ UNCHANGED <<ppSubmit, plDb>>

\* an event is published while the view holds no channel: removeChannel has
\* taken the handlers away, the event reaches no code of the view
DropEvent(e) ==
  /\ e \in dbEvents
  /\ ppChannels = 0
  /\ dbEvents' = dbEvents \ {e}
  /\ toast' = "none"
  /\ UNCHANGED <<isAdmin, clientId, pageVars, crashed, ppSubmit, plDb>>

NextView ==
  \/ \E q \in Queries :
        FetchPaymentsOk(q, TableRows(plDb, q, NumKeys))
        /\ PageRan("FetchPaymentsOk", NoArg, ppPayments # << >>) /\ UNCHANGED seen
  \/ \E q \in Queries :
        FetchPaymentsError(q) /\ PageRan("FetchPaymentsError", NoArg, FALSE)
        /\ UNCHANGED seen
  \/ \E r \in plRequests : LoadPaymentsOk(r) /\ ListFrame /\ Started(0)
  \/ \E r \in plRequests : LoadClientsOk(r) /\ ListFrame /\ Started(0)
  \/ \E r \in plRequests : LoadTasksOk(r) /\ ListFrame /\ Started(0)
  \/ \E r \in plRequests : LoadFailed(r) /\ ListFrame /\ Started(0)
  \/ ClickAddPayment /\ ViewFrame /\ Started(0) /\ UNCHANGED <<last, seen>>
  \/ \E row \in SubmittedRows :
        DialogSubmit(row) /\ ViewFrame /\ Started(1)
        /\ Emitted("Saved", row) /\ UNCHANGED last
  \/ DialogSubmitRefused /\ ViewFrame /\ Started(1) /\ UNCHANGED <<last, seen>>
  \/ DialogSaved /\ ViewFrame /\ Started(0) /\ Ran("DialogSaved", NoArg, FALSE) /\ UNCHANGED seen
  \/ DialogSaveFailed /\ ViewFrame /\ Started(0) /\ UNCHANGED <<last, seen>>
  \/ \E id \in Keys : \E row \in StoredRows(id) :
        RemoteInsert(row) /\ ViewFrame /\ Started(1)
        /\ Emitted("Inserted", row) /\ UNCHANGED last
  \/ \E id \in Keys :
        RemoteDelete(id) /\ ViewFrame /\ Started(1) /\ EmittedDeleted(id) /\ UNCHANGED last
  \/ \E e \in dbEvents :
        DeliverInserted(e) /\ ViewFrame /\ Started(0) /\ UNCHANGED seen
        /\ Ran("OnInserted", e.new, KeyPresent(ppPayments, e.new.id))
  \/ \E e \in dbEvents :
        DeliverDeleted(e) /\ ViewFrame /\ Started(0) /\ UNCHANGED seen
        /\ Ran("OnDeleted", KeyArg(e.old), KeyPresent(ppPayments, e.old))

SpecView == InitView /\ [][NextView]_vars

\* ------------------------- PaymentsPage from mount to teardown, over a table
\* the page is mounted over an empty table; other sessions write to the table,
\* the user changes, and the route is left while fetches and events are under
\* way
NextLife ==
  \/ \E v \in Viewers :
        InFlight(ppFetches) < MaxInFlight
        /\ PageAuthChanged(v[1], v[2])
  \/ \E q \in Queries :
        FetchPaymentsOk(q, TableRows(plDb, q, NumKeys))
        /\ PageRan("FetchPaymentsOk", NoArg, FALSE) /\ UNCHANGED seen
  \/ \E q \in Queries :
        FetchPaymentsError(q) /\ PageRan("FetchPaymentsError", NoArg, FALSE)
        /\ UNCHANGED seen
  \/ \E id \in Keys : \E row \in StoredRows(id) :
        RemoteInsert(row) /\ ViewFrame /\ Started(1)
        /\ Emitted("Inserted", row) /\ UNCHANGED last
  \/ \E id \in Keys :
        RemoteDelete(id) /\ ViewFrame /\ Started(1) /\ EmittedDeleted(id) /\ UNCHANGED last
  \/ \E e \in dbEvents :
        DeliverInserted(e) /\ ViewFrame /\ Started(0) /\ UNCHANGED seen
        /\ Ran("OnInserted", e.new, KeyPresent(ppPayments, e.new.id))
  \/ \E e \in dbEvents :
        DeliverDeleted(e) /\ ViewFrame /\ Started(0) /\ UNCHANGED seen
        /\ Ran("OnDeleted", KeyArg(e.old), KeyPresent(ppPayments, e.old))
  \/ \E e \in dbEvents :
        DropEvent(e) /\ ViewFrame /\ Started(0) /\ UNCHANGED seen
        /\ Ran("DropEvent", e, FALSE)
  \/ UnmountPage /\ Ran("UnmountPage", NoArg, FALSE)
        /\ UNCHANGED <<backVars, listVars, tasksVars, writes, seen>>

SpecLife == InitPageObserved /\ [][NextLife]_vars

\* ------------------------------- PaymentsPage, rows of any shape received
\* the fetch is answered and change events arrive with rows some of which
\* carry no id
NextRaw ==
  \/ \E q \in Queries : \E data \in RawResults(q) :
        FetchPaymentsOk(q, data)
        /\ PageRan("FetchPaymentsOk", [rows |-> data], FALSE) /\ UNCHANGED seen
  \/ \E row \in RawRow :
        OnInserted(row) /\ PageRan("OnInserted", row, KeyPresent(ppPayments, row.id))
        /\ UNCHANGED seen
  \/ \E id \in Keys :
        OnDeleted(id) /\ PageRan("OnDeleted", KeyArg(id), KeyPresent(ppPayments, id))
        /\ UNCHANGED seen

SpecRaw == InitPageObserved /\ [][NextRaw]_vars

\* ----------------- PaymentsPage, the response to a fetch under way for a while
\* the backend reads the rows of a fetch at one moment and the response
\* reaches the page at a later one; other sessions write to the table and
\* their change events are delivered in between
TakeSnapshot(q) ==
  /\ ppFetches[q] > 0
  /\ dbSnapshot[q] = {}
  /\ dbSnapshot' = [dbSnapshot EXCEPT ![q] = {TableRows(plDb, q, NumKeys)}]
  /\ UNCHANGED <<route, isAdmin, clientId, pageVars, ppSubmit, dbEvents, formVars,
                 authVars, listVars, tasksVars, crashed, toast, last, seen>>

\* the response carrying the rows read earlier is processed by fetchPayments
FetchResponded(q) ==
  /\ dbSnapshot[q] # {}
  /\ \E data \in dbSnapshot[q] : FetchPaymentsOk(q, data)
  /\ dbSnapshot' = [dbSnapshot EXCEPT ![q] = {}]
  /\ Ran("FetchPaymentsOk", NoArg, ppPayments # << >>)
  /\ UNCHANGED <<route, ppSubmit, dbEvents, formVars, authVars, listVars, tasksVars,
                 seen>>

\* the query fails before the backend has read any rows
FetchRefused(q) ==
  /\ dbSnapshot[q] = {}
  /\ FetchPaymentsError(q)
  /\ PageRan("FetchPaymentsError", NoArg, FALSE)
  /\ UNCHANGED seen

NextStale ==
  \/ \E q \in Queries : TakeSnapshot(q) /\ Started(0)
  \/ \E q \in Queries : FetchResponded(q) /\ Started(0)
  \/ \E q \in Queries : FetchRefused(q)
  \/ \E id \in Keys : \E row \in StoredRows(id) :
        RemoteInsert(row) /\ ViewFrame /\ Started(1)
        /\ Emitted("Inserted", row) /\ UNCHANGED last
  \/ \E id \in Keys :
        RemoteDelete(id) /\ ViewFrame /\ Started(1) /\ EmittedDeleted(id) /\ UNCHANGED last
  \/ \E e \in dbEvents :
        DeliverInserted(e) /\ ViewFrame /\ Started(0) /\ UNCHANGED seen
        /\ Ran("OnInserted", e.new, KeyPresent(ppPayments, e.new.id))
  \/ \E e \in dbEvents :
        DeliverDeleted(e) /\ ViewFrame /\ Started(0) /\ UNCHANGED seen
        /\ Ran("OnDeleted", KeyArg(e.old), KeyPresent(ppPayments, e.old))

\* mounted over any of the tables: subscribed, the fetch awaiting the backend
InitStale ==
  /\ InitPage /\ DialogIdle /\ Routed /\ ListConstructed /\ plRequests = {}
  /\ plDb \in PaymentTables
  /\ TasksIdle /\ writes = 0 /\ Mounted /\ seen = NoneSeen

SpecStale == InitStale /\ [][NextStale]_vars

\* -------------------- PaymentsPage, the user changing while fetches are under way
\* the table stays as it is and every query is answered with its rows, in
\* any order; isAdmin / clientId change while answers are awaited
NextScope ==
  \/ \E v \in Viewers :
        InFlight(ppFetches) < MaxScopes
        /\ PageAuthChanged(v[1], v[2])
  \/ \E q \in Queries :
        FetchPaymentsOk(q, TableRows(plDb, q, NumKeys))
        /\ PageRan("FetchPaymentsOk", NoArg, ppPayments # << >>) /\ UNCHANGED seen

SpecScope == InitStale /\ [][NextScope]_vars

\* ------------------- AddPaymentDialog, create mode: the client and its tasks
\* .from('tasks').select('id, title').eq('client_id', clientId)
ClientTasks(table, c) ==
  {k \in TaskKeys : table[k] # Absent /\ table[k].client_id = c}

FormInFlight == adFetches["c1"] + adFetches["c2"]

\* the user picks a client in the client Select (disabled only while the
\* clients load or in edit mode): clientId changes, the client-change effect
\* clears taskId and fetchTasks(clientId) runs up to its await
SelectClient(c) ==
  /\ route = "payments" /\ ~crashed
  /\ ppOpen /\ ppPaymentToEdit = NoKey
  /\ c # adClientId
  /\ adClientId' = c
  /\ adTaskId' = NoKey                          \* form.setValue('taskId', '')
  /\ adIsLoadingTasks' = TRUE                   \* setIsLoadingTasks(true)
  /\ adFetches' = [adFetches EXCEPT ![c] = @ + 1]
  /\ toast' = "none"
  /\ UNCHANGED adTasks

\* fetchTasks(c) after its await, no error; isMounted is an object made by
\* this very call and nothing ever clears it, so the branch is always taken
TasksFetched(c) ==
  /\ route = "payments" /\ ~crashed
  /\ adFetches[c] > 0
  /\ adFetches' = [adFetches EXCEPT ![c] = @ - 1]
  /\ adTasks' = ClientTasks(tpDb, c)            \* setTasks(data ?? [])
  /\ adIsLoadingTasks' = FALSE                  \* finally
  /\ toast' = "none"
  /\ UNCHANGED <<adClientId, adTaskId>>

\* the user picks one of the tasks offered in the task Select, which is
\* disabled while isLoadingTasks or without a client
SelectTask(t) ==
  /\ route = "payments" /\ ~crashed
  /\ ppOpen /\ ppPaymentToEdit = NoKey
  /\ ~adIsLoadingTasks /\ adClientId # Unselected
  /\ t \in adTasks
  /\ t # adTaskId
  /\ adTaskId' = t
  /\ toast' = "none"
  /\ UNCHANGED <<adClientId, adTasks, adIsLoadingTasks, adFetches>>

FormFrame ==
  UNCHANGED <<route, isAdmin, clientId, pageVars, ppSubmit, dbEvents, dbSnapshot,
              authVars, listVars, tasksVars, writes, crashed, seen>>

\* the payload onSubmit builds from the form values
Payload == [client_id |-> adClientId, task_id |-> adTaskId]

\* the submit button (disabled while isLoadingTasks); the schema requires a
\* clientId and a taskId; onSubmit writes the payload and awaits
SubmitForm ==
  /\ ~adIsLoadingTasks
  /\ adClientId # Unselected /\ adTaskId # NoKey
  /\ \E id \in Keys : \E row \in StoredRows(id) :
        /\ row.client_id = adClientId
        /\ DialogSubmit(row)
        /\ Emitted("Saved", row)
  /\ Ran("onSubmit", Payload, TRUE)
  /\ ViewFrame /\ Started(1)

NextForm ==
  \/ ClickAddPayment /\ PageRan("ClickAddPayment", NoArg, FALSE) /\ UNCHANGED seen
  \/ \E c \in Clients :
        /\ FormInFlight < MaxScopes
        /\ SelectClient(c) /\ FormFrame /\ Ran("SelectClient", NoArg, FALSE)
  \/ \E c \in Clients :
        TasksFetched(c) /\ FormFrame /\ Ran("TasksFetched", NoArg, FALSE)
  \/ \E t \in TaskKeys :
        SelectTask(t) /\ FormFrame /\ Ran("SelectTask", NoArg, FALSE)
  \/ SubmitForm

\* the page mounted by an admin or a client user, table tasks in any of its
\* states
InitForm ==
  /\ InitPage /\ DialogIdle /\ Routed /\ ListConstructed /\ plRequests = {}
  /\ plDb = EmptyTable
  /\ TasksConstructed /\ tpRequests = << >> /\ tpDb \in TaskTables
  /\ writes = 0 /\ Mounted /\ seen = NoneSeen

SpecForm == InitForm /\ [][NextForm]_vars

\* ------------------------------------------------- routing under useAuth()
\* the paths that mount neither PaymentsPage nor TasksPage
OtherPaths == Paths \ {"/dashboard/payments", "/dashboard/tasks"}

Screen == AppRoutes(authIsLoading, authUser, location)

RouteFrame ==
  UNCHANGED <<route, pageVars, ppSubmit, dbEvents, dbSnapshot, formVars, listVars,
              tasksVars, writes, crashed, toast, seen>>

\* the auth context yields another isLoading / user; every consumer renders
\* again
UseAuth(isLoading, user) ==
  /\ <<isLoading, user>> # <<authIsLoading, authUser>>
  /\ authIsLoading' = isLoading
  /\ authUser' = user
  /\ isAdmin' = (user # NoUser /\ user.role = "admin")      \* user?.role === 'admin'
  /\ clientId' = IF user = NoUser THEN Undefined ELSE user.clientId
  /\ UNCHANGED location

\* the user opens a path
GoTo(path) ==
  /\ path # location
  /\ location' = path
  /\ UNCHANGED <<authIsLoading, authUser, isAdmin, clientId>>

\* a rendered <Navigate to=... replace /> moves the router
FollowNavigate ==
  /\ \E path \in Paths : Screen = NavigateTo(path) /\ location' = path
  /\ UNCHANGED <<authIsLoading, authUser, isAdmin, clientId>>

NextRoute ==
  \/ \E l \in BOOLEAN : \E u \in Users \cup {NoUser} :
        UseAuth(l, u) /\ RouteFrame /\ Ran("UseAuth", NoArg, FALSE)
  \/ \E path \in OtherPaths : GoTo(path) /\ RouteFrame /\ Ran("GoTo", NoArg, FALSE)
  \/ FollowNavigate /\ RouteFrame /\ Ran("FollowNavigate", NoArg, FALSE)

\* the application opened at a path, the session not yet known, no page of
\* the model mounted
InitRoute ==
  /\ route = "elsewhere"
  /\ authIsLoading = TRUE /\ authUser = NoUser /\ location \in OtherPaths
  /\ isAdmin = FALSE /\ clientId = Undefined
  /\ ppPayments = << >> /\ ppOpen = FALSE /\ ppPaymentToEdit = NoKey
  /\ ppFetches = NoRequests /\ ppChannels = 0
  /\ DialogIdle /\ ListConstructed /\ plRequests = {} /\ plDb = EmptyTable
  /\ TasksIdle
  /\ writes = 0 /\ crashed = FALSE /\ toast = "none" /\ Mounted /\ seen = NoneSeen

SpecRoute == InitRoute /\ [][NextRoute]_vars

\* --------------------- PaymentsPage, records of differing updated_at received
\* the view after its first fetch has been answered, the rows carrying any of
\* the stamps; from then on change events arrive and saves are handed in
InitSync ==
  /\ route = "payments"
  /\ \E v \in Viewers : isAdmin = v[1] /\ clientId = v[2]
  /\ \E data \in QueryResults(QueryOf(isAdmin, clientId)) :
        ppPayments = MapFormat(data)
  /\ ppOpen = FALSE
  /\ ppPaymentToEdit = NoKey
  /\ ppFetches = NoRequests
  /\ ppChannels = Subscribed(0)
  /\ crashed = FALSE
  /\ toast = "none"
  /\ DialogIdle /\ Routed
  /\ ListIdle
  /\ TasksIdle
  /\ writes = 0
  /\ Mounted
  /\ seen = NoneSeen

NextSync ==
  \/ \E row \in PaymentRow :
        OnInserted(row) /\ PageRan("OnInserted", row, KeyPresent(ppPayments, row.id))
        /\ UNCHANGED seen
  \/ \E row \in PaymentRow :
        OnUpdated(row) /\ PageRan("OnUpdated", row, KeyPresent(ppPayments, row.id))
        /\ UNCHANGED seen
  \/ \E id \in Keys :
        OnDeleted(id) /\ PageRan("OnDeleted", KeyArg(id), KeyPresent(ppPayments, id))
        /\ UNCHANGED seen
  \/ \E p \in Payment :
        HandlePaymentSaved(p)
        /\ PageRan("HandlePaymentSaved", p, KeyPresent(ppPayments, p.id))
        /\ UNCHANGED seen

SpecSync == InitSync /\ [][NextSync]_vars

\* ---------------------------------------------------------------- typing
TypeOKPage ==
  /\ <<isAdmin, clientId>> \in Viewers
  /\ \A i \in 1..Len(ppPayments) : ppPayments[i] \in Payment \cup {UndefinedPayment}
  /\ InFlight(ppFetches) <= MaxInFlight

\* ------------------------------------------------------------------ claims
LastEventInScope(k) ==
  /\ seen[k].kind \in {"Inserted", "Updated"}
  /\ InScope(isAdmin, clientId, FormatPayment(seen[k].row))

LastEventOutOfScope(k) ==
  /\ seen[k].kind \in {"Inserted", "Updated"}
  /\ ~InScope(isAdmin, clientId, FormatPayment(seen[k].row))

\* C1: after any sequence of change events the collection holds exactly one
\* entry for every key whose last event was Inserted or Updated with a record
\* in the viewer's scope, and no entry for a key whose last event was Deleted.
MergeConverges ==
  \A k \in Keys :
    /\ LastEventInScope(k) => EntriesFor(ppPayments, k) = 1
    /\ seen[k].kind = "Deleted" => EntriesFor(ppPayments, k) = 0

\* C2: the payments collection of PaymentsPage never holds two records with
\* the same id, whatever fetches, change events and local saves and deletes
\* have been applied.
NoDuplicateIds == \A k \in Keys : EntriesFor(ppPayments, k) <= 1

\* a save for a key the collection already held has been merged, next to
\* another record
SavedOverPresentKey ==
  /\ last.op = "HandlePaymentSaved" /\ last.hit /\ ~crashed
  /\ Len(ppPayments) >= 2
  /\ PassesMergeTest(isAdmin, clientId, Head(ppPayments))

\* C3: for a non-admin viewer with an assigned client, every payment in the
\* collection belongs to that client and has a status of the client subset.
ClientViewInScope ==
  (~isAdmin /\ clientId # Undefined) =>
     \A i \in 1..Len(ppPayments) :
        ppPayments[i] # UndefinedPayment /\ InScope(isAdmin, clientId, ppPayments[i])

\* C4: for a viewer whose scope is resolved (an admin, or a non-admin with an
\* assigned client), when the last Inserted or Updated event for a key carried
\* a record outside the viewer's scope, the collection holds no entry with
\* that key.
OutOfScopeEventRemoves ==
  (isAdmin \/ clientId # Undefined) =>
     \A k \in Keys : LastEventOutOfScope(k) => EntriesFor(ppPayments, k) = 0

\* C5: right after the INSERT handler has applied an event, applying the same
\* event once more leaves the collection as it is (same entries, same order).
InsertedTwiceSameAsOnce ==
  (last.op = "OnInserted" /\ ~crashed) =>
     ApplyInserted(isAdmin, clientId, ppPayments, FormatPayment(last.arg)) = ppPayments

\* an INSERT event for a key the collection already held has been merged in
\* front of another record
InsertedOverPresentKey ==
  /\ last.op = "OnInserted" /\ last.hit /\ ~crashed
  /\ Len(ppPayments) >= 2
  /\ Head(ppPayments) = FormatPayment(last.arg)

\* a step in which a write of PaymentList or of TasksPage ends without success:
\* isProcessing is reset, or a write of TasksPage stops being awaited with no
\* further write following it, and no success is reported
WriteFailedStep ==
  \/ plIsProcessing /\ ~plIsProcessing' /\ toast' # "success"
  \/ /\ \E i \in 1..Len(tpRequests) :
           /\ tpRequests[i].op \in TaskMutationOps
           /\ tpRequests' = RemoveAt(tpRequests, i)
     /\ toast' # "success"

\* the notifications that show an error, the one AddTaskDialog follows with
\* its own success notification included
ErrorsSurfaced == ErrorToasts \cup {"error, then success"}

ListWriteAwaited == \E r \in plRequests : r.awaited /\ r.op \in WriteOps

CreatedUnderAssignedKey ==
  [][\A i \in 1..Len(tpRequests) : \A k \in TaskKeys :
        (/\ tpRequests[i].op = "insert"
         /\ tpRequests' = RemoveAt(tpRequests, i)
         /\ tpDb[k] = Absent /\ tpDb'[k] # Absent
         /\ k # tpRequests[i].task.id)
        => /\ TaskListed(tpTasks', k)
           /\ ~TaskListed(tpTasks', tpRequests[i].task.id)]_vars

\* C8: at no time do two writes for the same key await the backend.
OneMutationPerKey ==
  \A k \in TaskKeys :
     Cardinality({i \in 1..Len(tpRequests) :
                     /\ tpRequests[i].op \in TaskMutationOps
                     /\ tpRequests[i].task.id = k}) <= 1

\* C9: the payments fetch of loadData stops being awaited by timeout only when
\* its timer has run 5000 ms or more; that step raises the timed-out error,
\* ends the loading state and leaves the payments collection as it was; and
\* as long as the fetch that timed out is still under way at the backend, and
\* when its answer arrives, the collection does not change.
FetchTimesOutAtDeadline ==
  [][\A r \in plRequests :
        r.op = "loadPayments" =>
          /\ (r.awaited /\ Orphaned(r) \in plRequests') =>
                /\ r.elapsed >= TimeoutMs
                /\ toast' = "timed out"
                /\ ~plIsLoading'
                /\ plPayments' = plPayments
          /\ ~r.awaited => plPayments' = plPayments]_vars

\* the payments fetch has just timed out over a table that holds a row the
\* query matches, and the collection is empty
FetchTimedOutOverRows ==
  /\ toast = "timed out" /\ ~plIsLoading /\ plPayments = << >>
  /\ \E r \in plRequests :
        /\ r.op = "loadPayments" /\ ~r.awaited
        /\ \E k \in Keys : plDb[k] # Absent /\ QueryMatches(r.arg, plDb[k])

\* C10: the step that settles a write nobody awaits any more (withTimeout
\* having timed out) leaves table payments as it is.
AbandonedAfterTimeout ==
  [][\A r \in plRequests :
        (r.op \in WriteOps /\ ~r.awaited /\ r \notin plRequests')
        => plDb' = plDb]_vars

\* the records a collection holds, whatever their order
Records(coll) == {coll[i] : i \in 1..Len(coll)}

\* C11: for a viewer whose scope is resolved, once the fetch of PaymentsPage
\* has been answered and loadData of
\* PaymentList has succeeded, after PaymentsPage has merged a change
\* event (Inserted or Deleted) the records PaymentList displays are exactly
\* the records of the page's merged collection.
ListShowsMerged ==
  (/\ last.op \in {"OnInserted", "OnDeleted"} /\ ~crashed
   /\ (isAdmin \/ clientId # Undefined)
   /\ InFlight(ppFetches) = 0
   /\ ~plIsLoading /\ plClients = ClientTable /\ plTasks = TaskTable)
     => Records(plPayments) = Records(ppPayments)

\* the write a handler has just sent and awaits
IssuedByList(r) ==
  /\ r \in plRequests' /\ r \notin plRequests
  /\ r.op \in WriteOps /\ r = NewRequest(r.op, r.arg)

\* the payments show what write r is to bring about
ListShows(coll, r) ==
  CASE r.op = "delete" -> ~Listed(coll, r.arg)
    [] r.op = "invoice" ->
         \A i \in 1..Len(coll) : coll[i].id = r.arg => coll[i].status = "invoiced"
    [] r.op = "complete" ->
         \A i \in 1..Len(coll) : coll[i].id = r.arg => coll[i].status = "received"

\* the tasks show what write r is to bring about
TasksShow(coll, r) ==
  CASE r.op \in {"dialogInsert", "insert"} -> TaskListed(coll, r.task.id)
    [] r.op \in {"dialogUpdate", "update"} ->
         \E i \in 1..Len(coll) : coll[i] = r.task
    [] r.op = "delete" -> ~TaskListed(coll, r.task.id)

\* C12: the step in which a create, update or delete is issued (the write is
\* sent and awaited) already leaves the visible collection showing the
\* created record, the patched record, or the absence of the deleted record.
MutatesBeforeResponse ==
  [][/\ \A r \in plRequests' : IssuedByList(r) => ListShows(plPayments', r)
     /\ (Len(tpRequests') = Len(tpRequests) + 1) =>
           LET r == tpRequests'[Len(tpRequests')]
           IN r.op \in TaskMutationOps => TasksShow(tpTasks', r)]_vars

\* C15: once the local application of a successful create (onPaymentSaved of
\* the dialog that wrote the row) and the INSERT event of that same write
\* have both been applied, in either order, the view stands and its
\* collection holds exactly one entry for the created key and defined
\* records only, as it would after the event alone.
SavedAndEventAgree ==
  \A k \in Keys :
     (/\ seen[k].kind = "Saved"
      /\ InsertEvent(seen[k].row) \notin dbEvents
      /\ ppSubmit = "none")
     => /\ ~crashed
        /\ EntriesFor(ppPayments, k) = 1
        /\ ~HasUndefined(ppPayments)

\* the record a handler segment was given, in the domain shape
ReceivedRecord(seg) ==
  IF seg.op = "HandlePaymentSaved" THEN seg.arg ELSE FormatPayment(seg.arg)

\* the updatedAt of the entry a collection holds for a key
StampHeld(coll, id) ==
  LET i == CHOOSE j \in 1..Len(coll) : coll[j].id = id IN coll[i].updatedAt

\* C13: after an Inserted or Updated event, or a local save, with a record in
\* the viewer's scope has been handled, the collection holds exactly one
\* entry for the record's key and it equals the record just received,
\* whatever updated_at the record and the entry it replaces carry.
ReceivedLastWins ==
  [][(/\ last'.op \in {"OnInserted", "OnUpdated", "HandlePaymentSaved"}
      /\ ~crashed'
      /\ InScope(isAdmin, clientId, ReceivedRecord(last')))
     => /\ EntriesFor(ppPayments', ReceivedRecord(last').id) = 1
        /\ \E i \in 1..Len(ppPayments') : ppPayments'[i] = ReceivedRecord(last')]_vars

\* C14: when an Inserted event or a local save brings a record for a key the
\* collection holds, the entry held afterwards carries the greater of the two
\* updated_at values: the entry held is always the most recent by version of
\* the records received for its key.
NewestVersionHeld ==
  [][(/\ last'.op \in {"OnInserted", "HandlePaymentSaved"}
      /\ ~crashed'
      /\ PassesMergeTest(isAdmin, clientId, ReceivedRecord(last'))
      /\ KeyPresent(ppPayments, ReceivedRecord(last').id))
     => LET p == ReceivedRecord(last')
        IN /\ KeyPresent(ppPayments', p.id)
           /\ StampHeld(ppPayments', p.id) >= StampHeld(ppPayments, p.id)
           /\ StampHeld(ppPayments', p.id) >= p.updatedAt]_vars

\* C16: the view holds one subscription exactly while it is mounted, also after
\* isAdmin / clientId changed and the effect subscribed anew (every subscribe
\* has been released once when the next one is made or the view is torn
\* down), and once the view is torn down no step, a change event published
\* afterwards included, changes its collection.
SubscriptionReleased ==
  /\ [](ppChannels = IF route = "payments" /\ ~crashed THEN 1 ELSE 0)
  /\ [][route = "elsewhere" => ppPayments' = ppPayments]_vars

\* an event published for the torn-down view has found no channel, the
\* collection still holding what the view had loaded
EventAfterTeardown ==
  /\ route = "elsewhere" /\ ppChannels = 0
  /\ last.op = "DropEvent" /\ last.arg.event = "INSERT"
  /\ ppPayments # << >>
  /\ ~KeyPresent(ppPayments, last.arg.new.id)

\* C17: once PaymentList is torn down, no step issues a write to the backend
\* and no step changes the state the view held, whichever fetch, write or
\* timer started before the teardown completes afterwards.
QuietAfterTeardown ==
  [][route = "elsewhere" =>
       /\ \A r \in plRequests' : ~IssuedByList(r)
       /\ listViewState' = listViewState]_vars

\* C18: a non-admin viewer never has an unscoped payments query under way (a
\* load before the scope is resolved sends no query), and PaymentList never
\* lists to a non-admin a record of a client other than the viewer's own.
NonAdminNeverUnscoped ==
  ~isAdmin =>
     /\ \A r \in plRequests : r.op = "loadPayments" => r.arg # "all"
     /\ \A i \in 1..Len(plPayments) : plPayments[i].clientId = clientId

\* C19: no entry of the collection lacks a key, the merger has not failed, and
\* right after a fetch was answered the collection holds exactly the
\* well-formed rows of the answer, in the domain shape: rows and events
\* without an id are dropped, the rest of the batch is loaded.
MalformedDropped ==
  /\ ~crashed
  /\ \A i \in 1..Len(ppPayments) : ppPayments[i].id \in Keys
  /\ last.op = "FetchPaymentsOk" =>
        ppPayments = MapFormat(SelectSeq(last.arg.rows, WellFormed))

\* C20: whenever PaymentList is processing a mutation (isProcessing is true
\* after handleDelete, generateInvoice, handlePayNow or
\* handlePaymentCompleted started), isProcessing eventually becomes false
\* again, whether the backend applies the write, refuses it or never answers.
ProcessingEnds == plIsProcessing ~> ~plIsProcessing

\* a write the backend has never answered has been given up by its handler
\* and the processing state is over
UnansweredWriteGivenUp ==
  /\ ~plIsProcessing
  /\ toast = "timed out"
  /\ \E r \in plRequests : r.op \in WriteOps /\ ~r.awaited /\ r.outcome = "pending"

\* C21: a fetch that succeeds replaces the collection wholesale. When
\* fetchPayments of PaymentsPage has been answered, the page's collection is
\* exactly the rows of the table that match the fetch's query, parsed, in
\* the order of the answer; when the payments query of loadData has been
\* answered, the same holds of PaymentList's collection. Nothing the
\* collection held before survives unless the answer holds it.
FetchReplacesWholesale ==
  [][/\ \A q \in Queries :
          (ppFetches[q] > 0 /\ ppFetches' = Settle(ppFetches, q)
           /\ last'.op = "FetchPaymentsOk")
          => ppPayments' = MapFormat(TableRows(plDb, q, NumKeys))
     /\ \A r \in plRequests :
          (r.op = "loadPayments" /\ r \notin plRequests'
           /\ NewRequest("loadClients", NoKey) \in plRequests')
          => plPayments' = MapFormat(TableRows(plDb, r.arg, NumKeys))]_vars

\* the fetch was answered with no rows while the collection held an entry
\* (merged from an event before the answer came): the entry is gone
FetchedOverEntries ==
  last.op = "FetchPaymentsOk" /\ last.hit /\ ppPayments = << >>

\* the entries of a collection other than the one under a key, in their order
OthersThan(coll, k) ==
  SelectSeq(coll, LAMBDA p : ~(p # UndefinedPayment /\ p.id = k))

\* C22: when a DELETE event for key k has been handled, no error was raised
\* and the collection is the one before without the entry under k, every
\* other entry kept in its place; with no entry under k it is unchanged.
DeletedRemovesOnlyKey ==
  [][(last'.op = "OnDeleted" /\ dbEvents' # dbEvents)
     => /\ ~crashed'
        /\ ppPayments' = OthersThan(ppPayments, last'.arg.key)]_vars

\* what a collection of tasks holds under a key
TasksUnder(coll, id) == {coll[j] : j \in {n \in 1..Len(coll) : coll[n].id = id}}

\* C23: when TasksPage processes the response to one of its writes
\* (handleAddTask, handleUpdateTask, handleDeleteTask) whose handler was
\* called over a list that had been loaded, what the collection holds for
\* every other task stays as it was: a task added or updated by a mutation
\* answered earlier is not lost and a task deleted earlier does not
\* reappear, whatever the order of the responses.
ResponsesKeepOtherTasks ==
  [][\A i \in 1..Len(tpRequests) :
        (tpRequests[i].op \in {"insert", "update", "delete"}
         /\ tpRequests[i].tasks # << >>
         /\ tpRequests' = RemoveAt(tpRequests, i))
        => \A id \in TaskKeys \ {tpRequests[i].task.id} :
              TasksUnder(tpTasks', id) = TasksUnder(tpTasks, id)]_vars

\* C24: a change event the page has handled is not lost to a fetch that was
\* under way. For a viewer whose scope is resolved, once every fetch has been answered and every event delivered,
\* the collection holds an entry for each key whose last event was an
\* Inserted record the page merges, and none for a key whose last event was
\* Deleted.
EventsSurviveFetch ==
  (/\ isAdmin \/ clientId # Undefined
   /\ InFlight(ppFetches) = 0 /\ dbEvents = {} /\ toast # "error")
  => \A k \in Keys :
        /\ (seen[k].kind = "Inserted"
            /\ PassesMergeTest(isAdmin, clientId, FormatPayment(seen[k].row)))
           => KeyPresent(ppPayments, k)
        /\ seen[k].kind = "Deleted" => ~KeyPresent(ppPayments, k)

\* C25: once no fetch of the page awaits an answer, the collection is the
\* answer to the query of the user the page has now, whatever the order in
\* which the answers to the fetches of earlier users arrived.
LatestScopeWins ==
  InFlight(ppFetches) = 0
  => ppPayments = MapFormat(TableRows(plDb, QueryOf(isAdmin, clientId), NumKeys))

\* C26: when AddPaymentDialog has reported a successful save and
\* handlePaymentSaved has run, the page has not failed, every entry of the
\* collection is a defined record, the collection holds an entry under the
\* key the payment was saved at, and the dialog state is reset.
SavedRecordReceived ==
  last.op = "DialogSaved"
  => /\ ~crashed
     /\ ~HasUndefined(ppPayments)
     /\ \A k \in Keys : seen[k].kind = "Saved" => KeyPresent(ppPayments, k)
     /\ ~ppOpen /\ ppPaymentToEdit = NoKey


\* C27: in create mode, once no fetchTasks call is outstanding the tasks
\* offered for selection are the tasks of the selected client, and the
\* taskId of a submitted payload belongs to the client of that payload.
TasksOfferedForClient ==
  /\ (ppOpen /\ adClientId # Unselected /\ FormInFlight = 0)
        => adTasks = ClientTasks(tpDb, adClientId)
  /\ last.op = "onSubmit"
        => last.arg.task_id \in ClientTasks(tpDb, last.arg.client_id)

\* the ways ProtectedRoute is used: the default roles and the admin-only route
AllowedRoleSets == {DefaultRoles, {"admin"}}
Guarded(allowedRoles) ==
  ProtectedRoute(authIsLoading, authUser, allowedRoles, Renders("children"))
Waiting == authIsLoading \/ (authUser # NoUser /\ authUser.role = Undefined)

\* C28: ProtectedRoute renders its children exactly when loading is over, a
\* user exists, has a role and the role is allowed; without a user it
\* navigates to /login, with a role that is not allowed to /unauthorized, and
\* while loading or without a role it renders the spinner. The clients page
\* is on screen only for an admin.
RouteGuarded ==
  /\ \A allowed \in AllowedRoleSets :
        /\ Guarded(allowed) = Renders("children")
              <=> (~Waiting /\ authUser # NoUser /\ authUser.role \in allowed)
        /\ (~Waiting /\ authUser = NoUser) => Guarded(allowed) = NavigateTo("/login")
        /\ (~Waiting /\ authUser # NoUser /\ authUser.role \notin allowed)
              => Guarded(allowed) = NavigateTo("/unauthorized")
        /\ Waiting => Guarded(allowed) = Spinner
  /\ Screen = Renders("ClientsPage")
        => ~authIsLoading /\ authUser # NoUser /\ authUser.role = "admin"

ClientTurnedAway ==
  /\ location = "/dashboard/clients"
  /\ ~authIsLoading /\ authUser # NoUser /\ authUser.role = "client"
  /\ Screen = NavigateTo("/unauthorized")


\* C29: loadData is all-or-nothing. The invocation made on mount starts from
\* payments [], clients [] and tasks []; when it ends reporting an error (a
\* query failed or timed out), the three collections still hold these values.
LoadAllOrNothing ==
  [][(plIsLoading /\ ~plIsLoading' /\ toast' \in {"error", "timed out"})
        => /\ plPayments' = << >>
           /\ plClients' = {}
           /\ plTasks' = {}]_vars


\* C30: isLoading is true from the start of an invocation of loadData until
\* that invocation ends: while a query of loadData is awaited, isLoading is
\* true. (That isLoading returns to false in the end is LoadingEnds.)
LoadingWhileLoadRuns == LoadsAwaited # {} => plIsLoading

\* the other half of C30: loading ends, whether the backend answers or not
LoadingEnds == plIsLoading ~> ~plIsLoading

=============================================================================
